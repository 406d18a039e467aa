-------------------------- MODULE VpnNaming_proofs --------------------------
(***************************************************************************)
(* Proofs about VirtualDns for every set of names, pool size, timeout and  *)
(* clock.  The inductive invariant is TypeOK /\ Consistent.  Its parts     *)
(* relate the list, the two maps and the clock; Good states them of any    *)
(* such quadruple, so that the purge, the touch and the insertion, from    *)
(* which every handler is composed, are each shown once to preserve them.  *)
(***************************************************************************)
EXTENDS VpnNaming, TLAPS, SequenceTheorems

USE PoolAssumption, TimeAssumption, NamesAssumption

\* The well-formedness of a list, an entry map and a name map.
Typed(l, e, m) ==
  /\ l \in Seq(Addr)
  /\ DOMAIN e \subseteq Addr
  /\ e \in [DOMAIN e -> [name : Names, expiry : Nat]]
  /\ DOMAIN m \subseteq Names
  /\ m \in [DOMAIN m -> Addr]

Good(l, e, m, t) ==
  /\ Typed(l, e, m)
  /\ Listed(l) = DOMAIN e
  /\ \A i, j \in 1 .. Len(l) : l[i] = l[j] => i = j
  /\ \A ip \in DOMAIN e : e[ip].name \in DOMAIN m /\ m[e[ip].name] = ip
  /\ \A name \in DOMAIN m : m[name] \in DOMAIN e /\ e[m[name]].name = name
  /\ \A i, j \in 1 .. Len(l) : i <= j => e[l[i]].expiry <= e[l[j]].expiry
  /\ \A ip \in DOMAIN e : e[ip].expiry <= t + MappingTimeout

\* The invariant is Good of the state, with the types of what is left.
LEMMA InvIsGood ==
  (TypeOK /\ Consistent)
    <=> /\ Good(lru, entry, nameToIp, now)
        /\ now \in Nat /\ nextAddr \in Addr /\ reply \in [name : Names, ip : Addr \cup {NoIp}]
BY Zenon DEF TypeOK, Consistent, ListMatchesEntries, MapsAgree, OldestFirst, ExpiryBounded,
             Good, Typed

-----------------------------------------------------------------------------
\* Moving an element to the back permutes the list: the elements after it move
\* up by one, and it comes last.
LEMMA ToBackIsList ==
  ASSUME NEW S, NEW s \in Seq(S), NEW i \in 1 .. Len(s)
  PROVE  /\ ToBack(s, i) \in Seq(S)
         /\ Len(ToBack(s, i)) = Len(s)
         /\ \A j \in 1 .. Len(s) :
              ToBack(s, i)[j] = IF j < i THEN s[j] ELSE IF j < Len(s) THEN s[j + 1] ELSE s[i]
<1> DEFINE b == ToBack(s, i)
<1>1. Len(s) \in Nat /\ \A j \in 1 .. Len(s) : s[j] \in S
  BY ElementOfSeq, LenProperties
<1>2. b \in [1 .. Len(s) -> S]
  BY <1>1 DEF ToBack
<1>3. b \in Seq(S) /\ Len(b) = Len(s)
  BY <1>1, <1>2, IsASeq, LenProperties
<1> QED BY <1>1, <1>3 DEF ToBack

LEMMA ToBackListsSame ==
  ASSUME NEW S, NEW s \in Seq(S), NEW i \in 1 .. Len(s)
  PROVE  Listed(ToBack(s, i)) = Listed(s)
<1> DEFINE b == ToBack(s, i)
<1>1. /\ Len(b) = Len(s) /\ Len(s) \in Nat
      /\ \A j \in 1 .. Len(s) :
           b[j] = IF j < i THEN s[j] ELSE IF j < Len(s) THEN s[j + 1] ELSE s[i]
  BY ToBackIsList, LenProperties
<1>2. \A j \in 1 .. Len(s) : \E k \in 1 .. Len(s) : b[j] = s[k]
  <2> TAKE j \in 1 .. Len(s)
  <2>1. CASE j < i BY <2>1, <1>1
  <2>2. CASE ~(j < i) /\ j < Len(s)
    <3>1. j + 1 \in 1 .. Len(s) /\ b[j] = s[j + 1] BY <2>2, <1>1
    <3> QED BY <3>1
  <2>3. CASE ~(j < i) /\ ~(j < Len(s))
    BY <2>3, <1>1
  <2> QED BY <2>1, <2>2, <2>3
<1>3. \A k \in 1 .. Len(s) : \E j \in 1 .. Len(s) : b[j] = s[k]
  <2> TAKE k \in 1 .. Len(s)
  <2>1. CASE k < i BY <2>1, <1>1
  <2>2. CASE k = i
    <3>1. Len(s) \in 1 .. Len(s) /\ b[Len(s)] = s[k] BY <2>2, <1>1
    <3> QED BY <3>1
  <2>3. CASE k > i
    <3>1. k - 1 \in 1 .. Len(s) /\ b[k - 1] = s[k] BY <2>3, <1>1
    <3> QED BY <3>1
  <2> QED BY <2>1, <2>2, <2>3
<1>4. Listed(b) = {b[j] : j \in 1 .. Len(s)}
  BY <1>1 DEF Listed
<1>5. ASSUME NEW x \in Listed(b) PROVE x \in Listed(s)
  <2>1. PICK j \in 1 .. Len(s) : x = b[j] BY <1>4
  <2>2. PICK k \in 1 .. Len(s) : b[j] = s[k] BY <1>2
  <2> QED BY <2>1, <2>2 DEF Listed
<1>6. ASSUME NEW x \in Listed(s) PROVE x \in Listed(b)
  <2>1. PICK k \in 1 .. Len(s) : x = s[k] BY DEF Listed
  <2>2. PICK j \in 1 .. Len(s) : b[j] = s[k] BY <1>3
  <2> QED BY <2>1, <2>2, <1>4
<1> QED BY <1>5, <1>6

-----------------------------------------------------------------------------
\* A purge of a prefix leaves the rest of the list and, in both maps, exactly
\* what belongs to it.
LEMMA PurgeKeeps ==
  ASSUME Good(lru, entry, nameToIp, now), NEW n \in 0 .. Len(lru)
  PROVE  /\ KeptLru(n) \in Seq(Addr)
         /\ Len(KeptLru(n)) = Len(lru) - n
         /\ \A i \in 1 .. Len(lru) - n : KeptLru(n)[i] = lru[n + i]
         /\ DOMAIN KeptEntry(n) = Listed(KeptLru(n))
         /\ \A ip \in DOMAIN KeptEntry(n) : KeptEntry(n)[ip] = entry[ip]
<1>1. lru \in Seq(Addr) /\ Len(lru) \in Nat /\ Listed(lru) = DOMAIN entry
  BY LenProperties DEF Good, Typed
<1>2. /\ KeptLru(n) \in Seq(Addr)
      /\ Len(KeptLru(n)) = Len(lru) - n
      /\ \A i \in 1 .. Len(lru) - n : KeptLru(n)[i] = lru[n + i]
  <2>1. n + 1 \in 1 .. Len(lru) + 1 /\ Len(lru) \in n .. Len(lru)
    BY <1>1
  <2>2. /\ SubSeq(lru, n + 1, Len(lru)) \in Seq(Addr)
        /\ Len(SubSeq(lru, n + 1, Len(lru))) = IF n + 1 <= Len(lru) THEN Len(lru) - (n + 1) + 1 ELSE 0
        /\ \A i \in 1 .. Len(lru) - (n + 1) + 1 : SubSeq(lru, n + 1, Len(lru))[i] = lru[n + 1 + i - 1]
    BY <1>1, <2>1, SubSeqProperties
  <2> QED BY <1>1, <2>2 DEF KeptLru
<1>3. Listed(lru) \ Dropped(n) = Listed(KeptLru(n))
  <2>1. \A i, j \in 1 .. Len(lru) : lru[i] = lru[j] => i = j BY DEF Good
  <2>2. ASSUME NEW ip \in Listed(lru) \ Dropped(n) PROVE ip \in Listed(KeptLru(n))
    <3>1. PICK i \in 1 .. Len(lru) : ip = lru[i] BY DEF Listed
    <3>2. i > n BY <3>1, <1>1 DEF Dropped
    <3>3. i - n \in 1 .. Len(lru) - n /\ KeptLru(n)[i - n] = lru[i]
      BY <3>2, <1>1, <1>2
    <3> QED BY <3>1, <3>3, <1>2 DEF Listed
  <2>3. ASSUME NEW ip \in Listed(KeptLru(n)) PROVE ip \in Listed(lru) \ Dropped(n)
    <3>1. PICK i \in 1 .. Len(lru) - n : ip = KeptLru(n)[i] BY <1>2 DEF Listed
    <3>2. n + i \in 1 .. Len(lru) /\ ip = lru[n + i] BY <3>1, <1>1, <1>2
    <3>3. \A j \in 1 .. n : ip # lru[j] BY <3>2, <2>1, <1>1
    <3> QED BY <3>2, <3>3 DEF Listed, Dropped
  <2> QED BY <2>2, <2>3
<1> QED BY <1>1, <1>2, <1>3 DEF KeptEntry, Restrict

\* What is dropped are entries whose names the name map held, and nobody else
\* has those names: the purge leaves a good state.
LEMMA PurgeGood ==
  ASSUME Good(lru, entry, nameToIp, now), NEW n \in 0 .. Len(lru)
  PROVE  Good(KeptLru(n), KeptEntry(n), KeptNames(n), now)
<1> DEFINE l == KeptLru(n)
           e == KeptEntry(n)
           m == KeptNames(n)
<1>1. /\ l \in Seq(Addr) /\ Len(l) = Len(lru) - n /\ Len(lru) \in Nat
      /\ \A i \in 1 .. Len(l) : n + i \in 1 .. Len(lru) /\ l[i] = lru[n + i]
      /\ DOMAIN e = Listed(l)
      /\ \A ip \in DOMAIN e : e[ip] = entry[ip]
  BY PurgeKeeps, LenProperties DEF Good, Typed
<1>2. DOMAIN e = DOMAIN entry \ Dropped(n)
  BY DEF KeptEntry, Restrict
<1>3. /\ DOMAIN m = DOMAIN nameToIp \ {entry[ip].name : ip \in Dropped(n)}
      /\ \A name \in DOMAIN m : m[name] = nameToIp[name]
  BY DEF KeptNames, Restrict
<1>4. Dropped(n) \subseteq DOMAIN entry
  BY <1>1 DEF Dropped, Good, Listed
<1>5. Typed(l, e, m)
  <2>1. e \in [DOMAIN e -> [name : Names, expiry : Nat]]
    <3>1. e = [ip \in DOMAIN e |-> entry[ip]] BY DEF KeptEntry, Restrict
    <3>2. \A ip \in DOMAIN e : entry[ip] \in [name : Names, expiry : Nat]
      BY <1>2 DEF Good, Typed
    <3> QED BY <3>1, <3>2
  <2>2. m \in [DOMAIN m -> Addr]
    <3>1. m = [name \in DOMAIN m |-> nameToIp[name]] BY DEF KeptNames, Restrict
    <3>2. \A name \in DOMAIN m : nameToIp[name] \in Addr
      BY <1>3 DEF Good, Typed
    <3> QED BY <3>1, <3>2
  <2>3. DOMAIN e \subseteq Addr /\ DOMAIN m \subseteq Names
    BY <1>2, <1>3 DEF Good, Typed
  <2> HIDE DEF l, e, m
  <2> QED BY <1>1, <2>1, <2>2, <2>3 DEF Typed
<1>6. Listed(l) = DOMAIN e
  BY <1>1
<1>7. \A i, j \in 1 .. Len(l) : l[i] = l[j] => i = j
  <2> TAKE i, j \in 1 .. Len(l)
  <2>1. n + i \in 1 .. Len(lru) /\ n + j \in 1 .. Len(lru) /\ l[i] = lru[n + i] /\ l[j] = lru[n + j]
    BY <1>1
  <2>2. lru[n + i] = lru[n + j] => n + i = n + j
    BY <2>1 DEF Good
  <2> QED BY <2>1, <2>2
<1>8. \A ip \in DOMAIN e : e[ip].name \in DOMAIN m /\ m[e[ip].name] = ip
  <2> TAKE ip \in DOMAIN e
  <2>1. ip \in DOMAIN entry /\ ip \notin Dropped(n) /\ e[ip] = entry[ip]
    BY <1>1, <1>2
  <2>2. entry[ip].name \in DOMAIN nameToIp /\ nameToIp[entry[ip].name] = ip
    BY <2>1 DEF Good
  <2>3. \A other \in Dropped(n) : entry[other].name # entry[ip].name
    BY <2>1, <2>2, <1>4 DEF Good
  <2> QED BY <2>1, <2>2, <2>3, <1>3
<1>9. \A name \in DOMAIN m : m[name] \in DOMAIN e /\ e[m[name]].name = name
  <2> TAKE name \in DOMAIN m
  <2>1. name \in DOMAIN nameToIp /\ m[name] = nameToIp[name]
        /\ name \notin {entry[ip].name : ip \in Dropped(n)}
    BY <1>3
  <2>2. nameToIp[name] \in DOMAIN entry /\ entry[nameToIp[name]].name = name
    BY <2>1 DEF Good
  <2>3. nameToIp[name] \notin Dropped(n)
    BY <2>1, <2>2
  <2> QED BY <2>1, <2>2, <2>3, <1>1, <1>2
<1>10. \A i, j \in 1 .. Len(l) : i <= j => e[l[i]].expiry <= e[l[j]].expiry
  <2> TAKE i, j \in 1 .. Len(l)
  <2> HAVE i <= j
  <2>1. n + i \in 1 .. Len(lru) /\ n + j \in 1 .. Len(lru) /\ n + i <= n + j
        /\ l[i] = lru[n + i] /\ l[j] = lru[n + j]
    BY <1>1
  <2>2. entry[lru[n + i]].expiry <= entry[lru[n + j]].expiry
    BY <2>1 DEF Good
  <2>3. l[i] \in DOMAIN e /\ l[j] \in DOMAIN e
    BY <1>6 DEF Listed
  <2>4. e[l[i]] = entry[lru[n + i]] /\ e[l[j]] = entry[lru[n + j]]
    BY <1>1, <2>1, <2>3
  <2> HIDE DEF l, e
  <2> QED BY <2>2, <2>4
<1>11. \A ip \in DOMAIN e : e[ip].expiry <= now + MappingTimeout
  BY <1>1, <1>2 DEF Good
<1> HIDE DEF l, e, m
<1>12. Good(l, e, m, now)
  BY <1>5, <1>6, <1>7, <1>8, <1>9, <1>10, <1>11, Zenon DEF Good
<1> QED BY <1>12 DEF l, e, m

\* Renewing an entry at a time not before the last and moving it to the back.
LEMMA TouchGood ==
  ASSUME NEW l, NEW e, NEW m, NEW t \in Nat, Good(l, e, m, t),
         NEW i \in 1 .. Len(l), NEW u \in Nat, t <= u
  PROVE  Good(ToBack(l, i), [e EXCEPT ![l[i]].expiry = u + MappingTimeout], m, u)
<1> DEFINE b == ToBack(l, i)
           f == [e EXCEPT ![l[i]].expiry = u + MappingTimeout]
<1>1. l \in Seq(Addr) /\ Len(l) \in Nat /\ l[i] \in DOMAIN e
  BY LenProperties DEF Good, Typed, Listed
<1>2. /\ b \in Seq(Addr) /\ Len(b) = Len(l)
      /\ \A j \in 1 .. Len(l) :
           b[j] = IF j < i THEN l[j] ELSE IF j < Len(l) THEN l[j + 1] ELSE l[i]
      /\ Listed(b) = Listed(l)
  BY <1>1, ToBackIsList, ToBackListsSame
<1>3. e \in [DOMAIN e -> [name : Names, expiry : Nat]]
  BY DEF Good, Typed
<1>4. /\ f \in [DOMAIN e -> [name : Names, expiry : Nat]]
      /\ DOMAIN f = DOMAIN e
      /\ \A ip \in DOMAIN e :
           /\ f[ip].name = e[ip].name
           /\ f[ip].expiry = IF ip = l[i] THEN u + MappingTimeout ELSE e[ip].expiry
  BY <1>1, <1>3
<1> HIDE DEF b, f
<1>5. Typed(b, f, m)
  BY <1>2, <1>4 DEF Good, Typed
<1>6. Listed(b) = DOMAIN f
  BY <1>2, <1>4 DEF Good
<1>7. \A j, k \in 1 .. Len(b) : b[j] = b[k] => j = k
  <2> DEFINE At(j) == IF j < i THEN j ELSE IF j < Len(l) THEN j + 1 ELSE i
  <2>1. \A j, k \in 1 .. Len(l) : l[j] = l[k] => j = k BY DEF Good
  <2>2. \A j \in 1 .. Len(l) : At(j) \in 1 .. Len(l) /\ b[j] = l[At(j)] BY <1>1, <1>2
  <2>3. \A j, k \in 1 .. Len(l) : At(j) = At(k) => j = k BY <1>1
  <2> HIDE DEF At
  <2> QED BY <2>1, <2>2, <2>3, <1>2
<1>8. \A ip \in DOMAIN f : f[ip].name \in DOMAIN m /\ m[f[ip].name] = ip
  BY <1>4 DEF Good
<1>9. \A name \in DOMAIN m : m[name] \in DOMAIN f /\ f[m[name]].name = name
  BY <1>4 DEF Good
<1>10. \A j, k \in 1 .. Len(b) : j <= k => f[b[j]].expiry <= f[b[k]].expiry
  <2> TAKE j, k \in 1 .. Len(b)
  <2> HAVE j <= k
  <2>1. \A x, y \in 1 .. Len(l) : (l[x] = l[y] => x = y) /\ (x <= y => e[l[x]].expiry <= e[l[y]].expiry)
    BY DEF Good
  <2>2. \A x \in 1 .. Len(l) : /\ l[x] \in DOMAIN e
                               /\ e[l[x]].expiry \in Nat
                               /\ e[l[x]].expiry <= u + MappingTimeout
    BY <1>3 DEF Good, Listed
  <2>3. CASE k = Len(l)
    <3>1. b[k] = l[i] /\ f[b[k]].expiry = u + MappingTimeout
      BY <2>3, <1>1, <1>2, <1>4
    <3>2. PICK x \in 1 .. Len(l) : b[j] = l[x] BY <1>1, <1>2
    <3>3. l[x] \in DOMAIN e /\ e[l[x]].expiry <= u + MappingTimeout
          /\ f[l[x]].expiry = IF l[x] = l[i] THEN u + MappingTimeout ELSE e[l[x]].expiry
      BY <2>2, <1>4
    <3>4. f[l[x]].expiry <= u + MappingTimeout
      BY <3>3
    <3> QED BY <3>1, <3>2, <3>4
  <2>4. CASE k < Len(l)
    <3> DEFINE x == IF j < i THEN j ELSE j + 1
               y == IF k < i THEN k ELSE k + 1
    <3>1. x \in 1 .. Len(l) /\ y \in 1 .. Len(l) /\ x <= y /\ x # i /\ y # i
      BY <2>4, <1>1, <1>2
    <3>2. b[j] = l[x] /\ b[k] = l[y]
      BY <2>4, <1>1, <1>2
    <3> HIDE DEF x, y
    <3>3. f[l[x]].expiry = e[l[x]].expiry /\ f[l[y]].expiry = e[l[y]].expiry
      BY <3>1, <2>1, <2>2, <1>4
    <3> QED BY <3>1, <3>2, <3>3, <2>1
  <2> QED BY <2>3, <2>4, <1>1, <1>2
<1>11. \A ip \in DOMAIN f : f[ip].expiry <= u + MappingTimeout
  <2> TAKE ip \in DOMAIN f
  <2>1. e[ip].expiry \in Nat /\ e[ip].expiry <= t + MappingTimeout
    BY <1>3, <1>4 DEF Good
  <2> QED BY <2>1, <1>4
<1>12. Good(b, f, m, u)
  BY <1>5, <1>6, <1>7, <1>8, <1>9, <1>10, <1>11, Zenon DEF Good
<1> QED BY <1>12 DEF b, f

\* A new pair of a vacant address and a name without one, appended to the list.
LEMMA InsertGood ==
  ASSUME NEW l, NEW e, NEW m, NEW t \in Nat, Good(l, e, m, t),
         NEW ip \in Addr \ DOMAIN e, NEW name \in Names \ DOMAIN m, NEW u \in Nat, t <= u
  PROVE  Good(Append(l, ip),
              Insert(e, ip, Entry(name, u)), Insert(m, name, ip), u)
<1> DEFINE b == Append(l, ip)
           f == Insert(e, ip, Entry(name, u))
           g == Insert(m, name, ip)
<1>1. l \in Seq(Addr) /\ Len(l) \in Nat /\ \A i \in 1 .. Len(l) : l[i] \in DOMAIN e
  BY LenProperties DEF Good, Typed, Listed
<1>2. /\ b \in Seq(Addr) /\ Len(b) = Len(l) + 1
      /\ \A i \in 1 .. Len(l) : b[i] = l[i]
      /\ b[Len(l) + 1] = ip
  BY <1>1, AppendProperties
<1>3. /\ DOMAIN f = DOMAIN e \cup {ip}
      /\ f[ip].name = name /\ f[ip].expiry = u + MappingTimeout
      /\ \A a \in DOMAIN e : f[a] = e[a]
  BY DEF Entry, Insert
<1>4. /\ DOMAIN g = DOMAIN m \cup {name}
      /\ g[name] = ip
      /\ \A x \in DOMAIN m : g[x] = m[x]
  BY DEF Insert
<1>5. Typed(b, f, g)
  <2>1. f \in [DOMAIN f -> [name : Names, expiry : Nat]]
    <3>1. Entry(name, u) \in [name : Names, expiry : Nat] BY DEF Entry
    <3>2. \A a \in DOMAIN e : e[a] \in [name : Names, expiry : Nat] BY DEF Good, Typed
    <3> QED BY <3>1, <3>2, <1>3 DEF Insert
  <2>2. g \in [DOMAIN g -> Addr]
    BY <1>4 DEF Good, Typed, Insert
  <2>3. DOMAIN f \subseteq Addr /\ DOMAIN g \subseteq Names
    BY <1>3, <1>4 DEF Good, Typed
  <2> HIDE DEF b, f, g
  <2> QED BY <1>2, <2>1, <2>2, <2>3 DEF Typed
<1> HIDE DEF b, f, g
<1>6. Listed(b) = DOMAIN f
  <2>1. Listed(l) = DOMAIN e BY DEF Good
  <2>2. ASSUME NEW x \in Listed(b) PROVE x \in DOMAIN f
    <3>1. PICK i \in 1 .. Len(l) + 1 : x = b[i] BY <1>2 DEF Listed
    <3> QED BY <3>1, <1>1, <1>2, <1>3
  <2>3. ASSUME NEW x \in DOMAIN f PROVE x \in Listed(b)
    <3>1. CASE x = ip
      <4>1. Len(l) + 1 \in 1 .. Len(b) BY <1>1, <1>2
      <4> QED BY <3>1, <4>1, <1>2 DEF Listed
    <3>2. CASE x \in DOMAIN e
      <4>1. PICK i \in 1 .. Len(l) : x = l[i] BY <3>2, <2>1 DEF Listed
      <4>2. i \in 1 .. Len(b) /\ b[i] = x BY <4>1, <1>1, <1>2
      <4> QED BY <4>2 DEF Listed
    <3> QED BY <3>1, <3>2, <1>3
  <2> QED BY <2>2, <2>3
<1>7. \A i, j \in 1 .. Len(b) : b[i] = b[j] => i = j
  <2>1. \A i, j \in 1 .. Len(l) : l[i] = l[j] => i = j BY DEF Good
  <2>2. \A i \in 1 .. Len(l) : l[i] # ip BY <1>1
  <2> QED BY <2>1, <2>2, <1>1, <1>2
<1>8. \A a \in DOMAIN f : f[a].name \in DOMAIN g /\ g[f[a].name] = a
  BY <1>3, <1>4 DEF Good
<1>9. \A x \in DOMAIN g : g[x] \in DOMAIN f /\ f[g[x]].name = x
  BY <1>3, <1>4 DEF Good
<1>10. \A i, j \in 1 .. Len(b) : i <= j => f[b[i]].expiry <= f[b[j]].expiry
  <2>1. \A i, j \in 1 .. Len(l) : i <= j => e[l[i]].expiry <= e[l[j]].expiry
    BY DEF Good
  <2>2. \A i \in 1 .. Len(l) : e[l[i]].expiry \in Nat /\ e[l[i]].expiry <= u + MappingTimeout
    BY <1>1 DEF Good, Typed
  <2>3. \A i \in 1 .. Len(l) : f[b[i]].expiry = e[l[i]].expiry
    BY <1>1, <1>2, <1>3
  <2>4. f[b[Len(l) + 1]].expiry = u + MappingTimeout
    BY <1>2, <1>3
  <2>5. u + MappingTimeout <= u + MappingTimeout
    OBVIOUS
  <2> QED BY <2>1, <2>2, <2>3, <2>4, <2>5, <1>1, <1>2
<1>11. \A a \in DOMAIN f : f[a].expiry <= u + MappingTimeout
  <2>1. \A a \in DOMAIN e : e[a].expiry \in Nat /\ e[a].expiry <= t + MappingTimeout
    BY DEF Good, Typed
  <2>2. \A a \in DOMAIN e : f[a].expiry <= u + MappingTimeout
    BY <2>1, <1>3
  <2>3. f[ip].expiry <= u + MappingTimeout
    BY <1>3
  <2> QED BY <2>2, <2>3, <1>3
<1>12. Good(b, f, g, u)
  BY <1>5, <1>6, <1>7, <1>8, <1>9, <1>10, <1>11, Zenon DEF Good
<1> QED BY <1>12 DEF b, f, g

\* Time alone keeps a good state good, and so does an empty one.
LEMMA LaterGood ==
  ASSUME NEW l, NEW e, NEW m, NEW t \in Nat, Good(l, e, m, t), NEW u \in Nat, t <= u
  PROVE  Good(l, e, m, u)
<1>1. \A ip \in DOMAIN e : e[ip].expiry <= u + MappingTimeout
  BY DEF Good, Typed
<1> QED BY <1>1, Zenon DEF Good

LEMMA EmptyGood ==
  ASSUME NEW t \in Nat
  PROVE  Good(<< >>, << >>, << >>, t)
BY DEF Good, Typed, Listed

-----------------------------------------------------------------------------
LEMMA InitInv == Init => TypeOK /\ Consistent
<1> SUFFICES ASSUME Init PROVE TypeOK /\ Consistent OBVIOUS
<1>1. Good(lru, entry, nameToIp, now)
  BY EmptyGood DEF Init, New
<1>2. now \in Nat /\ nextAddr \in Addr /\ reply \in [name : Names, ip : Addr \cup {NoIp}]
  BY DEF Init, New, Addr
<1> QED BY <1>1, <1>2, InvIsGood

\* One step per action; each handler is a purge followed by a touch, an
\* insertion or nothing.
LEMMA NextInv == TypeOK /\ Consistent /\ [Next]_vars => TypeOK' /\ Consistent'
<1> SUFFICES ASSUME TypeOK /\ Consistent, [Next]_vars
             PROVE  /\ Good(lru', entry', nameToIp', now')
                    /\ now' \in Nat /\ nextAddr' \in Addr
                    /\ reply' \in [name : Names, ip : Addr \cup {NoIp}]
  <2>1. (TypeOK' /\ Consistent')
          <=> /\ Good(lru', entry', nameToIp', now')
              /\ now' \in Nat /\ nextAddr' \in Addr
              /\ reply' \in [name : Names, ip : Addr \cup {NoIp}]
    BY Zenon DEF TypeOK, Consistent, ListMatchesEntries, MapsAgree, OldestFirst, ExpiryBounded,
                 Good, Typed
  <2> QED BY <2>1
<1>1. /\ Good(lru, entry, nameToIp, now)
      /\ now \in Nat /\ nextAddr \in Addr /\ reply \in [name : Names, ip : Addr \cup {NoIp}]
  BY InvIsGood
<1>2. ASSUME NEW name \in Names, NEW n \in 0 .. Len(lru), QueryHit(name, n)
      PROVE  /\ Good(lru', entry', nameToIp', now')
             /\ now' \in Nat /\ nextAddr' \in Addr
             /\ reply' \in [name : Names, ip : Addr \cup {NoIp}]
  <2> DEFINE ip == nameToIp[name]
  <2>1. PICK i \in 1 .. Len(KeptLru(n)), later \in Later :
          /\ KeptLru(n)[i] = ip
          /\ now' = later
          /\ lru' = ToBack(KeptLru(n), i)
          /\ entry' = [KeptEntry(n) EXCEPT ![ip].expiry = later + MappingTimeout]
          /\ nameToIp' = KeptNames(n)
          /\ reply' = [name |-> name, ip |-> ip]
    BY <1>2 DEF QueryHit
  <2>2. later \in Nat /\ now <= later
    BY <1>1 DEF Later
  <2>3. Good(KeptLru(n), KeptEntry(n), KeptNames(n), now)
    BY <1>1, PurgeGood
  <2>4. Good(ToBack(KeptLru(n), i),
             [KeptEntry(n) EXCEPT ![KeptLru(n)[i]].expiry = later + MappingTimeout],
             KeptNames(n), later)
    BY <1>1, <2>2, <2>3, TouchGood
  <2>5. Good(lru', entry', nameToIp', now')
    BY <2>1, <2>4
  <2>6. KeptLru(n)[i] \in Addr
    BY <2>3, ElementOfSeq DEF Good, Typed
  <2> QED BY <1>1, <1>2, <2>1, <2>2, <2>5, <2>6 DEF QueryHit
<1>3. ASSUME NEW name \in Names, NEW n \in 0 .. Len(lru), QueryAllocate(name, n)
      PROVE  /\ Good(lru', entry', nameToIp', now')
             /\ now' \in Nat /\ nextAddr' \in Addr
             /\ reply' \in [name : Names, ip : Addr \cup {NoIp}]
  <2>1. PICK ip \in Addr, later \in Later :
          /\ FirstVacant(ip, DOMAIN KeptEntry(n))
          /\ now' = later
          /\ lru' = Append(KeptLru(n), ip)
          /\ entry' = Insert(KeptEntry(n), ip, Entry(name, later))
          /\ nameToIp' = Insert(KeptNames(n), name, ip)
          /\ nextAddr' = ip
          /\ reply' = [name |-> name, ip |-> ip]
    BY <1>3, Zenon DEF QueryAllocate
  <2>2. later \in Nat /\ now <= later
    BY <1>1 DEF Later
  <2>3. Good(KeptLru(n), KeptEntry(n), KeptNames(n), now)
    BY <1>1, PurgeGood
  <2>4. ip \in Addr \ DOMAIN KeptEntry(n) /\ name \in Names \ DOMAIN KeptNames(n)
    BY <1>3, <2>1 DEF FirstVacant, QueryAllocate
  <2>5. Good(Append(KeptLru(n), ip),
             Insert(KeptEntry(n), ip, Entry(name, later)),
             Insert(KeptNames(n), name, ip), later)
    BY <1>1, <2>2, <2>3, <2>4, InsertGood
  <2>6. Good(lru', entry', nameToIp', now')
    BY <2>1, <2>5
  <2> QED BY <2>1, <2>2, <2>6
<1>4. ASSUME NEW name \in Names, NEW n \in 0 .. Len(lru), QueryExhausted(name, n)
      PROVE  /\ Good(lru', entry', nameToIp', now')
             /\ now' \in Nat /\ nextAddr' \in Addr
             /\ reply' \in [name : Names, ip : Addr \cup {NoIp}]
  <2>1. Good(KeptLru(n), KeptEntry(n), KeptNames(n), now)
    BY <1>1, PurgeGood
  <2> QED BY <1>1, <1>4, <2>1 DEF QueryExhausted
<1>5. ASSUME NEW ip \in Addr, TouchAndResolve(ip)
      PROVE  /\ Good(lru', entry', nameToIp', now')
             /\ now' \in Nat /\ nextAddr' \in Addr
             /\ reply' \in [name : Names, ip : Addr \cup {NoIp}]
  <2>1. PICK i \in 1 .. Len(lru) :
          /\ lru[i] = ip
          /\ lru' = ToBack(lru, i)
          /\ entry' = [entry EXCEPT ![ip].expiry = now + MappingTimeout]
    BY <1>5 DEF TouchAndResolve
  <2>2. now <= now
    BY <1>1
  <2>3. Good(ToBack(lru, i), [entry EXCEPT ![lru[i]].expiry = now + MappingTimeout], nameToIp, now)
    BY <1>1, <2>2, TouchGood
  <2> QED BY <1>1, <1>5, <2>1, <2>3 DEF TouchAndResolve
<1>6. CASE Tick
  <2>1. now' \in Nat /\ now <= now' BY <1>1, <1>6 DEF Tick
  <2>2. Good(lru, entry, nameToIp, now') BY <1>1, <2>1, LaterGood
  <2> QED BY <1>1, <1>6, <2>1, <2>2 DEF Tick, dnsState
<1>7. CASE Restart
  <2>1. Good(lru', entry', nameToIp', now') BY <1>1, <1>7, EmptyGood DEF Restart, New
  <2> QED BY <1>1, <1>7, <2>1 DEF Restart, New, Addr
<1>8. CASE UNCHANGED vars
  BY <1>1, <1>8 DEF vars
<1> QED
  BY <1>2, <1>3, <1>4, <1>5, <1>6, <1>7, <1>8, Zenon DEF Next, Query

\* Every reachable state of the virtual DNS is well typed, and its list and its
\* two maps are consistent: the list holds every leased address once, oldest
\* first, and names and addresses are in one-to-one correspondence.
THEOREM VirtualDnsConsistent == Spec => [](TypeOK /\ Consistent)
<1>1. Init => TypeOK /\ Consistent BY InitInv
<1>2. (TypeOK /\ Consistent) /\ [Next]_vars => (TypeOK /\ Consistent)' BY NextInv
<1> QED BY <1>1, <1>2, PTL DEF Spec

-----------------------------------------------------------------------------
\* Because the list is sorted, stopping at the first unexpired entry removes
\* every expired one: what is kept is exactly what is alive.
LEMMA KeptIsLive ==
  ASSUME Good(lru, entry, nameToIp, now), now \in Nat,
         NEW n \in 0 .. Len(lru), PurgeStopsAt(n)
  PROVE  DOMAIN KeptEntry(n) = {ip \in DOMAIN entry : now <= entry[ip].expiry}
<1>1. /\ Len(lru) \in Nat
      /\ \A i \in 1 .. Len(lru) - n : KeptLru(n)[i] = lru[n + i]
      /\ Len(KeptLru(n)) = Len(lru) - n
      /\ DOMAIN KeptEntry(n) = Listed(KeptLru(n))
      /\ DOMAIN KeptEntry(n) = DOMAIN entry \ Dropped(n)
  BY PurgeKeeps, LenProperties DEF Good, Typed, KeptEntry, Restrict
<1>2. \A i \in 1 .. Len(lru) : lru[i] \in DOMAIN entry /\ entry[lru[i]].expiry \in Nat
  BY DEF Good, Typed, Listed
<1>3. ASSUME NEW ip \in DOMAIN KeptEntry(n) PROVE now <= entry[ip].expiry
  <2>1. PICK i \in 1 .. Len(lru) - n : ip = lru[n + i]
    BY <1>1 DEF Listed
  <2>2. n + 1 \in 1 .. Len(lru) /\ n + i \in 1 .. Len(lru) /\ n + 1 <= n + i /\ n < Len(lru)
    BY <1>1
  <2>3. ~(now > entry[lru[n + 1]].expiry)
    BY <2>2 DEF PurgeStopsAt, Expired
  <2>4. entry[lru[n + 1]].expiry <= entry[lru[n + i]].expiry
    BY <2>2 DEF Good
  <2> QED BY <2>1, <2>2, <2>3, <2>4, <1>2
<1>4. ASSUME NEW ip \in Dropped(n) PROVE ~(now <= entry[ip].expiry)
  <2>1. PICK i \in 1 .. n : ip = lru[i] BY DEF Dropped
  <2>2. i \in 1 .. Len(lru) BY <1>1
  <2>3. now > entry[lru[i]].expiry BY DEF PurgeStopsAt, Expired
  <2> QED BY <2>1, <2>2, <2>3, <1>2
<1> QED BY <1>1, <1>3, <1>4

\* The step form of NoEarlyReuse.
LEMMA StepNoEarlyReuse ==
  ASSUME TypeOK, Consistent, [Next]_vars, NEW ip \in DOMAIN entry \cap DOMAIN entry',
         entry'[ip].name # entry[ip].name
  PROVE  now > entry[ip].expiry
<1>1. Good(lru, entry, nameToIp, now) /\ now \in Nat
  BY InvIsGood
<1>2. \A n \in 0 .. Len(lru) :
        /\ DOMAIN KeptEntry(n) \subseteq DOMAIN entry
        /\ \A a \in DOMAIN KeptEntry(n) : KeptEntry(n)[a] = entry[a]
  BY DEF KeptEntry, Restrict
<1>3. ASSUME NEW name \in Names, NEW n \in 0 .. Len(lru), QueryHit(name, n)
      PROVE  now > entry[ip].expiry
  <2>1. PICK later \in Later :
          entry' = [KeptEntry(n) EXCEPT ![nameToIp[name]].expiry = later + MappingTimeout]
    BY <1>3 DEF QueryHit
  <2>2. DOMAIN entry' = DOMAIN KeptEntry(n) /\ entry'[ip].name = KeptEntry(n)[ip].name
    BY <2>1
  <2> QED BY <2>2, <1>2
<1>4. ASSUME NEW name \in Names, NEW n \in 0 .. Len(lru), QueryAllocate(name, n)
      PROVE  now > entry[ip].expiry
  <2>1. PICK a \in Addr, later \in Later :
          /\ a \notin DOMAIN KeptEntry(n)
          /\ entry' = Insert(KeptEntry(n), a, Entry(name, later))
    BY <1>4 DEF QueryAllocate, FirstVacant
  <2>2. ip \notin DOMAIN KeptEntry(n)
    BY <2>1, <1>2 DEF Insert
  <2>3. DOMAIN KeptEntry(n) = {x \in DOMAIN entry : now <= entry[x].expiry}
    BY <1>1, <1>4, KeptIsLive DEF QueryAllocate
  <2>4. entry[ip].expiry \in Nat
    BY <1>1 DEF Good, Typed
  <2> QED BY <2>2, <2>3, <2>4, <1>1
<1>5. ASSUME NEW name \in Names, NEW n \in 0 .. Len(lru), QueryExhausted(name, n)
      PROVE  now > entry[ip].expiry
  BY <1>5, <1>2 DEF QueryExhausted
<1>6. ASSUME NEW a \in Addr, TouchAndResolve(a)
      PROVE  now > entry[ip].expiry
  <2>1. entry' = [entry EXCEPT ![a].expiry = now + MappingTimeout]
    BY <1>6 DEF TouchAndResolve
  <2> QED BY <2>1
<1>7. CASE Tick BY <1>7 DEF Tick, dnsState
<1>8. CASE Restart BY <1>8 DEF Restart, New
<1>9. CASE UNCHANGED vars BY <1>9 DEF vars
<1> QED BY <1>3, <1>4, <1>5, <1>6, <1>7, <1>8, <1>9, Zenon DEF Next, Query

\* No step gives an address to another name while its mapping is alive.
THEOREM AddressNotReusedEarly == Spec => NoEarlyReuse
<1>1. TypeOK /\ Consistent /\ [Next]_vars
        => [\A ip \in DOMAIN entry \cap DOMAIN entry' :
              entry'[ip].name # entry[ip].name => now > entry[ip].expiry]_vars
  BY StepNoEarlyReuse
<1> QED BY <1>1, VirtualDnsConsistent, PTL DEF Spec, NoEarlyReuse

-----------------------------------------------------------------------------
\* The purge of a prefix is, seen from outside, the loss of every dead lease.
LEMMA KeptLeases ==
  ASSUME Good(lru, entry, nameToIp, now), now \in Nat,
         NEW n \in 0 .. Len(lru), PurgeStopsAt(n)
  PROVE  /\ Lease!Live = DOMAIN KeptEntry(n)
         /\ Leases(KeptEntry(n)) = Lease!Kept
         /\ \A ip \in Lease!Live : Leases(entry)[ip].name = entry[ip].name
<1>1. Lease!Live = DOMAIN KeptEntry(n)
  BY KeptIsLive DEF Lease!Live, Leases
<1>2. DOMAIN KeptEntry(n) \subseteq DOMAIN entry
      /\ \A ip \in DOMAIN KeptEntry(n) : KeptEntry(n)[ip] = entry[ip]
  BY DEF KeptEntry, Restrict
<1> QED BY <1>1, <1>2 DEF Leases, Lease!Kept

\* A name is known after the purge iff a live lease is for it.
LEMMA KnownIffLeased ==
  ASSUME Good(lru, entry, nameToIp, now), now \in Nat,
         NEW n \in 0 .. Len(lru), PurgeStopsAt(n), NEW name
  PROVE  /\ name \in DOMAIN KeptNames(n) =>
              /\ nameToIp[name] \in Lease!Live
              /\ entry[nameToIp[name]].name = name
         /\ name \notin DOMAIN KeptNames(n) => \A ip \in Lease!Live : entry[ip].name # name
<1>1. Good(KeptLru(n), KeptEntry(n), KeptNames(n), now)
  BY PurgeGood
<1>2. Lease!Live = DOMAIN KeptEntry(n)
  BY KeptLeases
<1>3. /\ \A ip \in DOMAIN KeptEntry(n) : KeptEntry(n)[ip] = entry[ip]
      /\ \A x \in DOMAIN KeptNames(n) : KeptNames(n)[x] = nameToIp[x]
  BY DEF KeptEntry, KeptNames, Restrict
<1> QED BY <1>1, <1>2, <1>3 DEF Good

LEMMA RefinesStep ==
  ASSUME TypeOK, Consistent, [Next]_vars
  PROVE  [Lease!Next]_(Lease!vars)
<1>1. Good(lru, entry, nameToIp, now) /\ now \in Nat
  BY InvIsGood
<1>2. ASSUME NEW name \in Names, NEW n \in 0 .. Len(lru), QueryHit(name, n)
      PROVE  Lease!Renew(name)
  <2> DEFINE ip == nameToIp[name]
  <2>1. PICK later \in Later :
          /\ now' = later
          /\ entry' = [KeptEntry(n) EXCEPT ![ip].expiry = later + MappingTimeout]
          /\ reply' = [name |-> name, ip |-> ip]
    BY <1>2 DEF QueryHit
  <2>2. PurgeStopsAt(n) /\ name \in DOMAIN KeptNames(n)
    BY <1>2 DEF QueryHit
  <2>3. /\ ip \in Lease!Live /\ entry[ip].name = name
        /\ Lease!Live = DOMAIN KeptEntry(n)
        /\ Leases(KeptEntry(n)) = Lease!Kept
        /\ Leases(entry)[ip].name = name
    BY <1>1, <2>2, KnownIffLeased, KeptLeases
  <2>4. Leases(entry') = [Leases(KeptEntry(n)) EXCEPT ![ip] = Lease!Lease(name, later)]
    <3>1. KeptEntry(n)[ip].name = name
      BY <2>3 DEF KeptEntry, Restrict
    <3>2. DOMAIN entry' = DOMAIN KeptEntry(n)
      BY <2>1
    <3>3. \A a \in DOMAIN KeptEntry(n) :
             /\ entry'[a].name = KeptEntry(n)[a].name
             /\ a # ip => entry'[a].expiry = KeptEntry(n)[a].expiry
             /\ a = ip => entry'[a].expiry = later + MappingTimeout
      <4>1. \A a \in DOMAIN KeptEntry(n) : KeptEntry(n)[a] \in [name : Names, expiry : Nat]
        BY <1>1, PurgeGood DEF Good, Typed
      <4> QED BY <2>1, <4>1
    <3> QED BY <2>3, <3>1, <3>2, <3>3 DEF Leases, Lease!Lease
  <2>5. now' \in Lease!Later
    BY <1>1, <2>1 DEF Later, Lease!Later
  <2>6. Leases(entry') = [Lease!Kept EXCEPT ![ip] = Lease!Lease(name, now')]
    BY <2>1, <2>3, <2>4
  <2>7. reply' = [name |-> name, ip |-> ip]
    BY <2>1
  <2> HIDE DEF ip
  <2> QED BY <2>3, <2>5, <2>6, <2>7, Zenon DEF Lease!Renew
<1>3. ASSUME NEW name \in Names, NEW n \in 0 .. Len(lru), QueryAllocate(name, n)
      PROVE  Lease!Grant(name)
  <2>1. PICK ip \in Addr, later \in Later :
          /\ FirstVacant(ip, DOMAIN KeptEntry(n))
          /\ now' = later
          /\ entry' = Insert(KeptEntry(n), ip, Entry(name, later))
          /\ reply' = [name |-> name, ip |-> ip]
    BY <1>3 DEF QueryAllocate
  <2>2. PurgeStopsAt(n) /\ name \notin DOMAIN KeptNames(n)
    BY <1>3 DEF QueryAllocate
  <2>3. /\ Lease!Live = DOMAIN KeptEntry(n)
        /\ \A other \in Lease!Live : Leases(entry)[other].name # name
        /\ Leases(KeptEntry(n)) = Lease!Kept
    BY <1>1, <2>2, KnownIffLeased, KeptLeases
  <2>4. ip \in Addr \ Lease!Live
    BY <2>1, <2>3 DEF FirstVacant
  <2>5. Leases(entry') = [other \in Lease!Live \cup {ip} |->
                            IF other = ip THEN Lease!Lease(name, later) ELSE Leases(entry)[other]]
    <3>1. \A other \in Lease!Live : Leases(KeptEntry(n))[other] = Leases(entry)[other]
      BY <2>3 DEF Lease!Kept
    <3>2. DOMAIN entry' = Lease!Live \cup {ip} /\ entry'[ip] = Entry(name, later)
          /\ \A other \in Lease!Live : entry'[other] = KeptEntry(n)[other]
      BY <2>1, <2>3, <2>4 DEF Insert
    <3> QED BY <2>3, <2>4, <3>1, <3>2 DEF Leases, Lease!Lease, Entry
  <2>6. now' \in Lease!Later
    BY <1>1, <2>1 DEF Later, Lease!Later
  <2> QED BY <2>1, <2>3, <2>4, <2>5, <2>6 DEF Lease!Grant
<1>4. ASSUME NEW name \in Names, NEW n \in 0 .. Len(lru), QueryExhausted(name, n)
      PROVE  Lease!Next
  <2>1. /\ PurgeStopsAt(n) /\ name \notin DOMAIN KeptNames(n)
        /\ Addr \subseteq DOMAIN KeptEntry(n)
        /\ entry' = KeptEntry(n) /\ now' = now
        /\ reply' = [name |-> name, ip |-> NoIp]
    BY <1>4 DEF QueryExhausted
  <2>2. /\ Lease!Live = DOMAIN KeptEntry(n)
        /\ \A other \in Lease!Live : Leases(entry)[other].name # name
    BY <1>1, <2>1, KnownIffLeased, KeptLeases
  <2>3. Lease!Live = Addr /\ entry' = entry
    <3>1. DOMAIN entry \subseteq Addr BY <1>1 DEF Good, Typed
    <3>2. DOMAIN KeptEntry(n) = DOMAIN entry
      BY <2>1, <3>1 DEF KeptEntry, Restrict
    <3>3. KeptEntry(n) = entry
      BY <1>1, <3>2 DEF KeptEntry, Restrict, Good, Typed
    <3> QED BY <2>1, <2>2, <3>1, <3>2, <3>3
  <2>4. Lease!Refuse(name)
    BY <2>1, <2>2, <2>3 DEF Lease!Refuse
  <2> QED BY <2>4 DEF Lease!Next
<1>5. ASSUME NEW ip \in Addr, TouchAndResolve(ip)
      PROVE  Lease!Use(ip)
  <2>1. /\ ip \in DOMAIN entry
        /\ entry' = [entry EXCEPT ![ip].expiry = now + MappingTimeout]
        /\ now' = now /\ reply' = reply
    BY <1>1, <1>5 DEF TouchAndResolve, Good, Listed
  <2>2. Leases(entry') = [Leases(entry) EXCEPT ![ip].until = now + MappingTimeout]
    <3>1. \A a \in DOMAIN entry : entry[a] \in [name : Names, expiry : Nat]
      BY <1>1 DEF Good, Typed
    <3> QED BY <2>1, <3>1 DEF Leases
  <2> QED BY <2>1, <2>2 DEF Lease!Use, Leases
<1>6. CASE Tick
  <2>1. Lease!Pass BY <1>1, <1>6 DEF Lease!Pass, Lease!Later, Tick, dnsState
  <2> QED BY <2>1 DEF Lease!Next
<1>7. CASE Restart
  <2>1. Lease!Forget BY <1>7 DEF Lease!Forget, Restart, New, Leases
  <2> QED BY <2>1 DEF Lease!Next
<1>8. CASE UNCHANGED vars
  BY <1>8 DEF vars, Lease!vars
<1> QED
  BY <1>2, <1>3, <1>4, <1>5, <1>6, <1>7, <1>8, Zenon DEF Next, Query, Lease!Next

LEMMA RefinesInit == Init => Lease!Init
BY DEF Init, New, Lease!Init, Leases

\* The virtual DNS implements the abstract lessor: a name that asks is renewed,
\* granted an address without a live lease, or refused because there is none.
THEOREM VirtualDnsLeases == Spec => LeaseSpec
<1>1. TypeOK /\ Consistent /\ [Next]_vars => [Lease!Next]_(Lease!vars)
  BY RefinesStep
<1> QED BY <1>1, RefinesInit, VirtualDnsConsistent, PTL DEF Spec, LeaseSpec, Lease!Spec

-----------------------------------------------------------------------------
\* What AddressLease itself promises, and so VirtualDns.
LeaseInv == Lease!Typed /\ Lease!OneAddressEach

LEMMA LeaseInitInv == Lease!Init => LeaseInv
BY DEF Lease!Init, LeaseInv, Lease!Typed, Lease!OneAddressEach

\* The leases that a query keeps, and one more.
LEMMA LiveLeases ==
  ASSUME LeaseInv
  PROVE  /\ Lease!Live \subseteq DOMAIN Leases(entry)
         /\ \A ip \in Lease!Live : Lease!Kept[ip] = Leases(entry)[ip]
         /\ DOMAIN Lease!Kept = Lease!Live
BY DEF Lease!Live, Lease!Kept

LEMMA LeaseStep ==
  ASSUME LeaseInv, [Lease!Next]_(Lease!vars)
  PROVE  /\ LeaseInv'
         /\ Lease!Holds
<1> DEFINE old == Leases(entry)
           new == Leases(entry')
           live == Lease!Live
           L(name, t) == [name |-> name, until |-> t + MappingTimeout]
           Held == \A ip \in live : /\ ip \in DOMAIN new
                                    /\ new[ip].name = old[ip].name
                                    /\ new[ip].until >= old[ip].until
<1>1. /\ now \in Nat /\ MappingTimeout \in Nat
      /\ DOMAIN old \subseteq Addr
      /\ old \in [DOMAIN old -> [name : Names, until : Nat]]
      /\ \A ip \in DOMAIN old : old[ip].until <= now + MappingTimeout
      /\ \A a, b \in DOMAIN old : old[a].name = old[b].name => a = b
  BY DEF LeaseInv, Lease!Typed, Lease!OneAddressEach
<1>2. live \subseteq DOMAIN old
  BY LiveLeases
<1>3. LeaseInv' <=>
        /\ now' \in Nat
        /\ DOMAIN new \subseteq Addr
        /\ new \in [DOMAIN new -> [name : Names, until : Nat]]
        /\ \A ip \in DOMAIN new : new[ip].until <= now' + MappingTimeout
        /\ \A a, b \in DOMAIN new : new[a].name = new[b].name => a = b
  BY DEF LeaseInv, Lease!Typed, Lease!OneAddressEach, Leases
<1>4. ASSUME NEW name \in Names, Lease!Renew(name) PROVE LeaseInv' /\ Held
  <2>1. PICK ip \in live :
          /\ old[ip].name = name
          /\ now' \in Lease!Later
          /\ new = [Lease!Kept EXCEPT ![ip] = Lease!Lease(name, now')]
    BY <1>4 DEF Lease!Renew, Leases
  <2>2. now' \in Nat /\ now' >= now
    BY <2>1 DEF Lease!Later
  <2>3. new = [a \in live |-> IF a = ip THEN L(name, now') ELSE old[a]]
    BY <2>1, LiveLeases DEF Lease!Kept, Lease!Lease
  <2>4. Held /\ DOMAIN new = live /\ new[ip] = L(name, now')
        /\ \A a \in live : a # ip => new[a] = old[a]
    <3>1. \A a \in live : /\ old[a].until \in Nat /\ old[a].until <= now + MappingTimeout
                          /\ new[a] = IF a = ip THEN L(name, now') ELSE old[a]
      <4> HIDE DEF old, new, live
      <4> QED BY <1>1, <1>2, <2>3
    <3>2. L(name, now').name = name /\ L(name, now').until = now' + MappingTimeout
      OBVIOUS
    <3>3. DOMAIN new = live
      BY <2>3
    <3> HIDE DEF old, new, live, L
    <3> QED BY <1>1, <2>1, <2>2, <3>1, <3>2, <3>3
  <2> HIDE DEF old, new, live
  <2>5. new \in [DOMAIN new -> [name : Names, until : Nat]]
    <3>1. L(name, now') \in [name : Names, until : Nat]
      BY <1>1, <2>2
    <3>2. \A a \in live : old[a] \in [name : Names, until : Nat]
      BY <1>1, <1>2
    <3> HIDE DEF L
    <3> QED BY <2>3, <3>1, <3>2
  <2>6. \A a \in DOMAIN new : new[a].until <= now' + MappingTimeout
    BY <1>1, <1>2, <2>1, <2>2, <2>4
  <2>7. \A a \in DOMAIN new : new[a].name = old[a].name
    BY <2>1, <2>4
  <2> QED BY <1>1, <1>2, <1>3, <2>2, <2>4, <2>5, <2>6, <2>7
<1>5. ASSUME NEW name \in Names, Lease!Grant(name) PROVE LeaseInv' /\ Held
  <2>1. PICK ip \in Addr \ live :
          /\ \A other \in live : old[other].name # name
          /\ now' \in Lease!Later
          /\ new = [other \in live \cup {ip} |->
                      IF other = ip THEN L(name, now') ELSE old[other]]
    BY <1>5 DEF Lease!Grant, Lease!Lease, Leases
  <2>2. now' \in Nat /\ now' >= now
    BY <2>1 DEF Lease!Later
  <2> HIDE DEF old, new, live
  <2> QED BY <1>1, <1>2, <1>3, <2>1, <2>2
<1>6. ASSUME NEW ip \in Addr, Lease!Use(ip) PROVE LeaseInv' /\ Held
  <2>1. ip \in DOMAIN old /\ new = [old EXCEPT ![ip].until = now + MappingTimeout] /\ now' = now
    BY <1>6 DEF Lease!Use, Leases
  <2> HIDE DEF old, new, live
  <2> QED BY <1>1, <1>2, <1>3, <2>1
<1>7. ASSUME Lease!Pass \/ (\E name \in Names : Lease!Refuse(name)) \/ UNCHANGED Lease!vars
      PROVE  LeaseInv' /\ Held
  <2>1. new = old /\ now' \in Nat /\ now' >= now
    BY <1>1, <1>7 DEF Lease!Pass, Lease!Refuse, Lease!Later, Lease!vars, Leases
  <2> HIDE DEF old, new, live
  <2> QED BY <1>1, <1>2, <1>3, <2>1
<1>8. ASSUME Lease!Forget PROVE LeaseInv'
  <2>1. new = << >> /\ now' = now
    BY <1>8 DEF Lease!Forget, Leases
  <2> HIDE DEF old, new
  <2> QED BY <1>1, <1>3, <2>1
<1> HIDE DEF old, new, live, Held
<1>9. LeaseInv' /\ (Lease!Forget \/ Held)
  BY <1>4, <1>5, <1>6, <1>7, <1>8, Zenon DEF Lease!Next
<1> QED BY <1>9 DEF Held, old, new, live, Lease!Holds, Leases

\* What implements AddressLease never has two addresses for a name.
THEOREM LeasesExclusive == LeaseSpec => []Lease!OneAddressEach
<1>1. LeaseInv /\ [Lease!Next]_(Lease!vars) => LeaseInv'
  BY LeaseStep
<1>2. LeaseInv => Lease!OneAddressEach
  BY DEF LeaseInv
<1> QED BY <1>1, <1>2, LeaseInitInv, PTL DEF LeaseSpec, Lease!Spec

\* A mapping that has not expired is neither dropped, nor shortened, nor given to another
\* name by any query, touch or purge of virtual_dns.rs; only a restart forgets it.
THEOREM MappingsHeld == Spec => Lease!HeldToTheEnd
<1>1. LeaseInv /\ [Lease!Next]_(Lease!vars) => LeaseInv'
  BY LeaseStep
<1>2. LeaseInv /\ [Lease!Next]_(Lease!vars) => [Lease!Holds]_(Lease!vars)
  BY LeaseStep
<1>3. LeaseSpec => Lease!HeldToTheEnd
  BY <1>1, <1>2, LeaseInitInv, PTL DEF LeaseSpec, Lease!Spec, Lease!HeldToTheEnd
<1> QED BY <1>3, VirtualDnsLeases, PTL

(***************************************************************************)
(* Proof that a timely DNS answer is honoured, for every set of names,     *)
(* every pool and every timeout not below the life of an answer.           *)
(* AnswersHonoured is not inductive: it says nothing of how long a mapping *)
(* will stay.  AnswersBacked adds that its expiry is not before the end of *)
(* the answer.                                                             *)
(***************************************************************************)

USE PoolAssumption, TimeAssumption, NamesAssumption, AnswerLifeAssumption, NoNameAssumption

Backed(a) ==
  /\ a.ip \in DOMAIN entry
  /\ entry[a.ip].name = a.name
  /\ a.until <= entry[a.ip].expiry

Answer == [name : Names, ip : Addr, until : Nat, earlierRun : BOOLEAN]

AnswersBacked == \A a \in answers : a \in Answer /\ (Timely(a) => Backed(a))

VpnInv == TypeOK /\ Consistent /\ AnswersBacked

-----------------------------------------------------------------------------
\* An answer given at time t ends before a mapping made at time t.
LEMMA LifeFits ==
  \A t \in Nat : t + AnswerLife \in Nat /\ t + AnswerLife <= t + MappingTimeout
OBVIOUS

\* The steps of the virtual DNS other than a restart.
Running ==
  \/ \E name \in Names : Query(name)
  \/ \E ip \in Addr : TouchAndResolve(ip)
  \/ Tick
  \/ UNCHANGED vars

LEMMA TimeForward == TypeOK /\ [Next]_vars => now <= now'
<1> SUFFICES ASSUME now \in Nat, [Next]_vars PROVE now <= now'
  BY DEF TypeOK
<1>1. ASSUME NEW name \in Names, Query(name) PROVE now <= now'
  <2>1. ASSUME NEW later \in Later PROVE now <= later BY <2>1 DEF Later
  <2>2. now' = now \/ \E later \in Later : now' = later
    BY <1>1 DEF Query, QueryHit, QueryAllocate, QueryExhausted
  <2> QED BY <2>1, <2>2
<1>2. ASSUME NEW ip \in Addr, TouchAndResolve(ip) PROVE now <= now'
  BY <1>2 DEF TouchAndResolve
<1> QED BY <1>1, <1>2 DEF Next, Tick, Restart, vars

\* Neither a query nor a touch nor time takes away a mapping that is still
\* needed at the new time.
LEMMA MappingStays ==
  ASSUME TypeOK, Consistent, Running,
         NEW ip \in DOMAIN entry, NEW u \in Nat, now' <= u, u <= entry[ip].expiry
  PROVE  /\ ip \in DOMAIN entry'
         /\ entry'[ip].name = entry[ip].name
         /\ u <= entry'[ip].expiry
<1>1. Good(lru, entry, nameToIp, now) /\ now \in Nat
  BY InvIsGood
<1>2. \A a \in DOMAIN entry : /\ entry[a] \in [name : Names, expiry : Nat]
                              /\ entry[a].expiry <= now + MappingTimeout
  BY <1>1 DEF Good, Typed
<1>3. \A n \in 0 .. Len(lru) : now <= now' /\ PurgeStopsAt(n) =>
        ip \in DOMAIN KeptEntry(n) /\ KeptEntry(n)[ip] = entry[ip]
  <2> SUFFICES ASSUME NEW n \in 0 .. Len(lru), now <= now', PurgeStopsAt(n)
               PROVE  ip \in DOMAIN KeptEntry(n) /\ KeptEntry(n)[ip] = entry[ip]
    OBVIOUS
  <2>1. now <= entry[ip].expiry
    <3>1. now' \in Nat BY NextInv DEF TypeOK, Running, Next
    <3> QED BY <1>1, <1>2, <3>1
  <2>2. ip \in DOMAIN KeptEntry(n)
    BY <1>1, <2>1, KeptIsLive
  <2> QED BY <2>2 DEF KeptEntry, Restrict
<1>4. ASSUME NEW name \in Names, NEW n \in 0 .. Len(lru), QueryHit(name, n)
      PROVE  ip \in DOMAIN entry' /\ entry'[ip].name = entry[ip].name /\ u <= entry'[ip].expiry
  <2>1. PICK later \in Later :
          /\ now' = later
          /\ entry' = [KeptEntry(n) EXCEPT ![nameToIp[name]].expiry = later + MappingTimeout]
    BY <1>4 DEF QueryHit
  <2>2. later \in Nat /\ now <= later
    BY <1>1 DEF Later
  <2>3. ip \in DOMAIN KeptEntry(n) /\ KeptEntry(n)[ip] = entry[ip]
    BY <1>3, <1>4, <2>1, <2>2 DEF QueryHit
  <2>4. entry[ip].expiry <= later + MappingTimeout
    BY <1>1, <1>2, <2>2
  <2>5. /\ ip \in DOMAIN entry' /\ entry'[ip].name = entry[ip].name
        /\ entry'[ip].expiry = IF ip = nameToIp[name] THEN later + MappingTimeout ELSE entry[ip].expiry
    BY <2>1, <2>3, <1>2
  <2> QED BY <1>2, <2>2, <2>4, <2>5
<1>5. ASSUME NEW name \in Names, NEW n \in 0 .. Len(lru), QueryAllocate(name, n)
      PROVE  ip \in DOMAIN entry' /\ entry'[ip].name = entry[ip].name /\ u <= entry'[ip].expiry
  <2>1. PICK a \in Addr, later \in Later :
          /\ a \notin DOMAIN KeptEntry(n)
          /\ now' = later
          /\ entry' = Insert(KeptEntry(n), a, Entry(name, later))
    BY <1>5 DEF QueryAllocate, FirstVacant
  <2>2. later \in Nat /\ now <= later
    BY <1>1 DEF Later
  <2>3. ip \in DOMAIN KeptEntry(n) /\ KeptEntry(n)[ip] = entry[ip]
    BY <1>3, <1>5, <2>1, <2>2 DEF QueryAllocate
  <2> QED BY <2>1, <2>3 DEF Insert
<1>6. ASSUME NEW name \in Names, NEW n \in 0 .. Len(lru), QueryExhausted(name, n)
      PROVE  ip \in DOMAIN entry' /\ entry'[ip].name = entry[ip].name /\ u <= entry'[ip].expiry
  <2>1. now <= now' BY <1>1, <1>6 DEF QueryExhausted
  <2> QED BY <1>3, <1>6, <2>1 DEF QueryExhausted
<1>7. ASSUME NEW a \in Addr, TouchAndResolve(a)
      PROVE  ip \in DOMAIN entry' /\ entry'[ip].name = entry[ip].name /\ u <= entry'[ip].expiry
  <2>1. entry' = [entry EXCEPT ![a].expiry = now + MappingTimeout]
    BY <1>7 DEF TouchAndResolve
  <2>2. /\ ip \in DOMAIN entry' /\ entry'[ip].name = entry[ip].name
        /\ entry'[ip].expiry = IF ip = a THEN now + MappingTimeout ELSE entry[ip].expiry
    BY <2>1, <1>2
  <2> QED BY <1>1, <1>2, <2>2
<1>8. CASE Tick BY <1>8 DEF Tick, dnsState
<1>9. CASE UNCHANGED vars BY <1>9 DEF vars
<1> QED BY <1>4, <1>5, <1>6, <1>7, <1>8, <1>9, Zenon DEF Running, Query

\* An address that is given out is mapped to the name for the whole timeout.
LEMMA AnswerBacked ==
  ASSUME TypeOK, Consistent, NEW name \in Names, Query(name), reply'.ip # NoIp
  PROVE  /\ reply'.ip \in DOMAIN entry'
         /\ entry'[reply'.ip].name = name
         /\ entry'[reply'.ip].expiry = now' + MappingTimeout
<1>1. Good(lru, entry, nameToIp, now) /\ now \in Nat
  BY InvIsGood
<1>2. ASSUME NEW n \in 0 .. Len(lru), QueryHit(name, n)
      PROVE  /\ reply'.ip \in DOMAIN entry'
             /\ entry'[reply'.ip].name = name
             /\ entry'[reply'.ip].expiry = now' + MappingTimeout
  <2> DEFINE ip == nameToIp[name]
  <2>1. PICK later \in Later :
          /\ now' = later
          /\ entry' = [KeptEntry(n) EXCEPT ![ip].expiry = later + MappingTimeout]
          /\ reply' = [name |-> name, ip |-> ip]
    BY <1>2 DEF QueryHit
  <2>2. Good(KeptLru(n), KeptEntry(n), KeptNames(n), now)
    BY <1>1, PurgeGood
  <2>3. name \in DOMAIN KeptNames(n) /\ KeptNames(n)[name] = ip
    BY <1>2 DEF QueryHit, KeptNames, Restrict
  <2>4. ip \in DOMAIN KeptEntry(n) /\ KeptEntry(n)[ip].name = name
    BY <2>2, <2>3 DEF Good
  <2>5. KeptEntry(n)[ip] \in [name : Names, expiry : Nat]
    BY <2>2, <2>4 DEF Good, Typed
  <2> QED BY <2>1, <2>4, <2>5
<1>3. ASSUME NEW n \in 0 .. Len(lru), QueryAllocate(name, n)
      PROVE  /\ reply'.ip \in DOMAIN entry'
             /\ entry'[reply'.ip].name = name
             /\ entry'[reply'.ip].expiry = now' + MappingTimeout
  BY <1>3 DEF QueryAllocate, Insert, Entry
<1>4. ASSUME NEW n \in 0 .. Len(lru), QueryExhausted(name, n)
      PROVE  FALSE
  BY <1>4 DEF QueryExhausted
<1> QED BY <1>2, <1>3, <1>4, Zenon DEF Query

-----------------------------------------------------------------------------
LEMMA VpnInitInv == VpnInit => VpnInv
<1> SUFFICES ASSUME VpnInit PROVE VpnInv OBVIOUS
<1>1. TypeOK /\ Consistent BY InitInv DEF VpnInit
<1>2. AnswersBacked BY DEF VpnInit, AnswersBacked
<1> QED BY <1>1, <1>2 DEF VpnInv

\* Every step of the composition but a restart is a step of the running
\* virtual DNS, or leaves it unchanged.
LEMMA VpnStepIsDnsStep ==
  ASSUME TypeOK, [VpnNext]_allVars
  PROVE  /\ [Next]_vars
         /\ RestartVpn \/ Running
<1>1. ASSUME NEW a \in answers, Accept(a) PROVE Running
  <2>1. CASE TouchAndResolve(a.ip)
    <3>1. a.ip \in Addr BY <2>1, ElementOfSeq DEF TouchAndResolve, TypeOK
    <3> QED BY <2>1, <3>1 DEF Running
  <2> QED BY <1>1, <2>1 DEF Accept, Running
<1>2. RestartVpn \/ Running
  BY <1>1 DEF VpnNext, DnsSession, Close, Elapse, allVars, vars, Running
<1> QED BY <1>2 DEF Running, RestartVpn, Next

LEMMA VpnNextInv == VpnInv /\ [VpnNext]_allVars => VpnInv'
<1> SUFFICES ASSUME VpnInv, [VpnNext]_allVars PROVE VpnInv' OBVIOUS
<1>1. /\ TypeOK /\ Consistent /\ [Next]_vars
      /\ RestartVpn \/ Running
      /\ TypeOK' /\ Consistent'
  BY VpnStepIsDnsStep, NextInv DEF VpnInv
<1>2. /\ now \in Nat /\ now' \in Nat /\ now <= now'
      /\ \A ip \in DOMAIN entry : entry[ip].expiry \in Nat
  BY <1>1, TimeForward DEF TypeOK
<1>3. ASSUME Running, NEW a \in answers
      PROVE  a \in Answer /\ (Timely(a)' => Backed(a)')
  <2>1. a \in Answer /\ a.until \in Nat /\ (Timely(a) => Backed(a))
    BY DEF VpnInv, AnswersBacked, Answer
  <2>2. SUFFICES ASSUME now' <= a.until, ~a.earlierRun PROVE Backed(a)'
    BY <2>1 DEF Timely
  <2>3. Backed(a)
    BY <1>2, <2>1, <2>2 DEF Timely
  <2> QED BY <1>1, <1>3, <2>1, <2>2, <2>3, MappingStays DEF Backed
<1>4. ASSUME NEW name \in Names, DnsSession(name) PROVE AnswersBacked'
  <2>1. Running BY <1>4 DEF DnsSession, Running
  <2>2. CASE reply'.ip # NoIp /\ answers' = Received(name)
    <3> SUFFICES ASSUME NEW a \in answers'
                 PROVE  a \in Answer /\ (Timely(a)' => Backed(a)')
      BY DEF AnswersBacked
    <3>1. CASE a \in answers
      BY <1>3, <2>1, <3>1
    <3>2. CASE a = [name |-> name, ip |-> reply'.ip, until |-> now' + AnswerLife, earlierRun |-> FALSE]
      <4>1. /\ reply'.ip \in DOMAIN entry'
            /\ entry'[reply'.ip].name = name
            /\ entry'[reply'.ip].expiry = now' + MappingTimeout
        BY <1>1, <1>4, <2>2, AnswerBacked DEF DnsSession
      <4>2. a.ip = reply'.ip /\ a.name = name /\ a.until = now' + AnswerLife
        BY <3>2
      <4>3. a.until \in Nat /\ now' + AnswerLife <= now' + MappingTimeout
        BY <1>2, <4>2, LifeFits
      <4>4. a \in Answer
        BY <1>1, <1>2, <2>2, <3>2 DEF Answer, TypeOK
      <4> QED BY <4>1, <4>2, <4>3, <4>4 DEF Backed
    <3> QED BY <2>2, <3>1, <3>2 DEF Received
  <2>3. CASE UNCHANGED answers
    BY <1>3, <2>1, <2>3 DEF AnswersBacked
  <2> QED BY <1>4, <2>2, <2>3 DEF DnsSession
<1>5. ASSUME UNCHANGED answers, Running PROVE AnswersBacked'
  BY <1>3, <1>5 DEF AnswersBacked
<1>6. ASSUME RestartVpn PROVE AnswersBacked'
  <2> SUFFICES ASSUME NEW a \in answers'
               PROVE  a \in Answer /\ (Timely(a)' => Backed(a)')
    BY DEF AnswersBacked
  <2>1. PICK b \in answers : a = [b EXCEPT !.earlierRun = TRUE]
    BY <1>6 DEF RestartVpn
  <2>2. b \in Answer
    BY DEF VpnInv, AnswersBacked
  <2>3. a \in Answer /\ a.earlierRun = TRUE
    BY <2>1, <2>2 DEF Answer
  <2> QED BY <2>3 DEF Timely
<1>7. AnswersBacked'
  <2>1. \/ \E name \in Names : DnsSession(name)
        \/ UNCHANGED answers
        \/ RestartVpn
    BY DEF VpnNext, Accept, Close, Elapse, allVars
  <2>2. CASE \E name \in Names : DnsSession(name) BY <2>2, <1>4
  <2>3. CASE RestartVpn BY <2>3, <1>6
  <2>4. CASE UNCHANGED answers /\ Running BY <2>4, <1>5
  <2> QED BY <1>1, <2>1, <2>2, <2>3, <2>4
<1> QED BY <1>1, <1>7 DEF VpnInv

\* In every reachable state, an answer that an application may still use
\* resolves to the name it was asked for.
THEOREM TimelyAnswersHonoured == VpnSpec => []AnswersHonoured
<1>1. VpnInv => AnswersHonoured
  BY DEF VpnInv, AnswersBacked, AnswersHonoured, Backed, NameOf
<1> QED BY <1>1, VpnInitInv, VpnNextInv, PTL DEF VpnSpec

-----------------------------------------------------------------------------
ConnsTyped == conns \subseteq [ip : Addr, dialled : Names \cup {NoName}]

LEMMA ConnsStep == VpnInv /\ ConnsTyped /\ [VpnNext]_allVars => ConnsTyped'
<1> SUFFICES ASSUME VpnInv, ConnsTyped, [VpnNext]_allVars PROVE ConnsTyped'
  OBVIOUS
<1>1. ASSUME NEW a \in answers, Accept(a) PROVE ConnsTyped'
  <2>1. a.ip \in Addr
    BY DEF VpnInv, AnswersBacked, Answer
  <2>2. NameOf(a.ip) \in Names \cup {NoName}
    BY DEF NameOf, VpnInv, TypeOK
  <2>3. [ip |-> a.ip, dialled |-> NameOf(a.ip)] \in [ip : Addr, dialled : Names \cup {NoName}]
    BY <2>1, <2>2
  <2>4. conns' = conns \cup {[ip |-> a.ip, dialled |-> NameOf(a.ip)]}
    BY <1>1 DEF Accept
  <2> QED BY <2>3, <2>4 DEF ConnsTyped
<1>2. ASSUME NEW c \in conns, Close(c) PROVE ConnsTyped'
  BY <1>2 DEF Close, ConnsTyped
<1>3. CASE RestartVpn
  BY <1>3 DEF RestartVpn, ConnsTyped
<1>4. CASE UNCHANGED conns
  BY <1>4 DEF ConnsTyped
<1> QED BY <1>1, <1>2, <1>3, <1>4 DEF VpnNext, DnsSession, Elapse, allVars

\* Answers and connections only hold addresses of the pool, and a connection
\* is dialled to a name that was asked for or to the bare address.
THEOREM VpnTypes == VpnSpec => []VpnTypeOK
<1>1. VpnInit => ConnsTyped
  BY DEF VpnInit, ConnsTyped
<1>2. VpnInv /\ ConnsTyped => VpnTypeOK
  BY DEF VpnInv, ConnsTyped, AnswersBacked, Answer, VpnTypeOK
<1> QED BY <1>1, <1>2, VpnInitInv, VpnNextInv, ConnsStep, PTL DEF VpnSpec
=============================================================================
