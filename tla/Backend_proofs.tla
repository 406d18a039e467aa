--------------------------- MODULE Backend_proofs ---------------------------
(***************************************************************************)
(* What the backend promises of its two loops, for any timing of commands  *)
(* and tasks and any number of starts, and, at the end, what the proxy     *)
(* loop's route matcher answers.  SlotIsLive is not inductive: that a task *)
(* which has not yet run cannot have been cancelled is what makes its      *)
(* registration put a live token into the slot.  Fresh says so.            *)
(***************************************************************************)
EXTENDS Backend, RouteTrie, TLAPS

\* A token is unknown to everybody until its task registers it.
Fresh == \A t \in Tasks : task[t] \in {"unused", "spawned"} => t \notin cancelled /\ t # slot

SlotInv == TypeOK /\ SlotIsLive /\ Fresh

LEMMA InitSlotInv == Init => SlotInv
BY NoneAssumption DEF Init, SlotInv, TypeOK, SlotIsLive, Fresh

\* One step per action, and under each the parts of the invariant.
LEMMA NextSlotInv == SlotInv /\ [Next]_vars => SlotInv'
<1> SUFFICES ASSUME SlotInv, [Next]_vars PROVE SlotInv' OBVIOUS
<1> USE NoneAssumption DEF SlotInv
<1>1. ASSUME NEW t \in Tasks, Start(t) PROVE SlotInv'
  <2>1. TypeOK' BY <1>1 DEF Start, TakeAndCancel, TypeOK
  <2>2. SlotIsLive' BY <1>1 DEF Start, TakeAndCancel, TypeOK, SlotIsLive
  <2>3. Fresh' BY <1>1 DEF Start, TakeAndCancel, TypeOK, Fresh
  <2> QED BY <2>1, <2>2, <2>3
<1>2. CASE Stop
  <2>1. TypeOK' BY <1>2 DEF Stop, TakeAndCancel, TypeOK
  <2>2. SlotIsLive' BY <1>2 DEF Stop, TakeAndCancel, TypeOK, SlotIsLive
  <2>3. Fresh' BY <1>2 DEF Stop, TakeAndCancel, TypeOK, Fresh
  <2> QED BY <2>1, <2>2, <2>3
<1>3. ASSUME NEW t \in Tasks, Register(t) PROVE SlotInv'
  <2>1. TypeOK' BY <1>3 DEF Register, TypeOK, asked
  <2>2. SlotIsLive' BY <1>3 DEF Register, TypeOK, SlotIsLive, Fresh
  <2>3. Fresh' BY <1>3 DEF Register, TypeOK, Fresh
  <2> QED BY <2>1, <2>2, <2>3
<1>4. ASSUME NEW t \in Tasks, Load(t) PROVE SlotInv'
  <2>1. TypeOK' BY <1>4 DEF Load, TypeOK, asked
  <2>2. SlotIsLive' BY <1>4 DEF Load, TypeOK, SlotIsLive
  <2>3. Fresh' BY <1>4 DEF Load, TypeOK, Fresh
  <2> QED BY <2>1, <2>2, <2>3
<1>5. ASSUME NEW t \in Tasks, Bind(t) PROVE SlotInv'
  <2>1. TypeOK' BY <1>5 DEF Bind, TypeOK, asked
  <2>2. SlotIsLive' BY <1>5 DEF Bind, TypeOK, SlotIsLive
  <2>3. Fresh' BY <1>5 DEF Bind, TypeOK, Fresh
  <2> QED BY <2>1, <2>2, <2>3
<1>6. ASSUME NEW t \in Tasks, Shutdown(t) PROVE SlotInv'
  <2>1. TypeOK' BY <1>6 DEF Shutdown, TypeOK, asked
  <2>2. SlotIsLive' BY <1>6 DEF Shutdown, TypeOK, SlotIsLive
  <2>3. Fresh' BY <1>6 DEF Shutdown, TypeOK, Fresh
  <2> QED BY <2>1, <2>2, <2>3
<1>7. CASE UNCHANGED vars
  BY <1>7 DEF vars, asked, TypeOK, SlotIsLive, Fresh
<1> QED BY <1>1, <1>2, <1>3, <1>4, <1>5, <1>6, <1>7 DEF Next, Command, Run

\* Each part of the backend makes its own steps or none.
LEMMA BackendParts == [BackendNext]_BackendVars => [Next]_vars /\ [PingNext]_pingVars
BY DEF BackendNext, BackendVars

\* The proxy's slot, the progress of its tasks and its port have the values that
\* ProxyLoop gives them, whatever commands and pings come.
THEOREM ProxyTypes == BackendSpec => []TypeOK
<1>1. SlotInv => TypeOK BY DEF SlotInv
<1>2. BackendInit => SlotInv BY InitSlotInv DEF BackendInit
<1>3. SlotInv /\ [BackendNext]_BackendVars => SlotInv' BY NextSlotInv, BackendParts
<1> QED BY <1>1, <1>2, <1>3, PTL DEF BackendSpec

\* A stop, at any moment, finds in the slot either nothing or a token that is
\* still live.
THEOREM SlotAlwaysLive == BackendSpec => []SlotIsLive
<1>1. SlotInv => SlotIsLive BY DEF SlotInv
<1>2. BackendInit => SlotInv BY InitSlotInv DEF BackendInit
<1>3. SlotInv /\ [BackendNext]_BackendVars => SlotInv' BY NextSlotInv, BackendParts
<1> QED BY <1>1, <1>2, <1>3, PTL DEF BackendSpec

-----------------------------------------------------------------------------
\* Unless a command came early, at most one start has not registered yet, and
\* while one has not the slot is empty, so that registering drops no token.
OneUnregistered ==
  ~early => \A t \in Tasks : task[t] = "spawned" =>
    /\ slot = None
    /\ \A u \in Tasks : task[u] = "spawned" => u = t

OrphanInv == SlotInv /\ NoOrphan /\ OneUnregistered

LEMMA NextOrphanInv == OrphanInv /\ [Next]_vars => OrphanInv'
<1> SUFFICES ASSUME OrphanInv, [Next]_vars PROVE OrphanInv' OBVIOUS
<1> USE NoneAssumption DEF OrphanInv, NoOrphan, Alive, OneUnregistered
<1>1. SlotInv'
  BY NextSlotInv
<1>2. TypeOK BY DEF SlotInv
<1>3. ASSUME NEW t \in Tasks, Start(t) PROVE (NoOrphan /\ OneUnregistered)'
  <2>1. early' = (early \/ ~Registered) BY <1>3 DEF Start
  <2>2. NoOrphan' BY <1>2, <1>3, <2>1 DEF Start, TakeAndCancel, TypeOK
  <2>3. OneUnregistered' BY <1>2, <1>3, <2>1 DEF Start, TakeAndCancel, Registered, TypeOK
  <2> QED BY <2>2, <2>3
<1>4. ASSUME Stop PROVE (NoOrphan /\ OneUnregistered)'
  <2>1. NoOrphan' BY <1>2, <1>4 DEF Stop, TakeAndCancel, TypeOK
  <2>2. OneUnregistered' BY <1>2, <1>4 DEF Stop, TakeAndCancel, Registered, TypeOK
  <2> QED BY <2>1, <2>2
<1>5. ASSUME NEW t \in Tasks, Register(t) PROVE (NoOrphan /\ OneUnregistered)'
  <2>1. early' = early BY <1>5 DEF Register, asked
  <2>2. ~early => slot = None BY <1>5 DEF Register
  <2>3. NoOrphan' BY <1>2, <1>5, <2>1, <2>2 DEF Register, TypeOK
  <2>4. OneUnregistered' BY <1>2, <1>5, <2>1 DEF Register, TypeOK
  <2> QED BY <2>3, <2>4
<1>6. ASSUME NEW t \in Tasks, Load(t) PROVE (NoOrphan /\ OneUnregistered)'
  BY <1>2, <1>6 DEF Load, TypeOK, asked
<1>7. ASSUME NEW t \in Tasks, Bind(t) PROVE (NoOrphan /\ OneUnregistered)'
  BY <1>2, <1>7 DEF Bind, TypeOK, asked
<1>8. ASSUME NEW t \in Tasks, Shutdown(t) PROVE (NoOrphan /\ OneUnregistered)'
  BY <1>2, <1>8 DEF Shutdown, TypeOK, asked
<1>9. CASE UNCHANGED vars
  BY <1>1, <1>9 DEF vars, asked
<1> QED
  BY <1>1, <1>3, <1>4, <1>5, <1>6, <1>7, <1>8, <1>9 DEF Next, Command, Run

\* As long as each command comes after the registration of the start before it,
\* no loop goes on that cannot be stopped, and no two go on uncancelled.
THEOREM NoLoopOrphaned == BackendSpec => []NoOrphan
<1>1. Init => OrphanInv
  BY InitSlotInv DEF Init, OrphanInv, NoOrphan, Alive, OneUnregistered
<1>2. BackendInit => OrphanInv BY <1>1 DEF BackendInit
<1>3. OrphanInv /\ [BackendNext]_BackendVars => OrphanInv' BY NextOrphanInv, BackendParts
<1>4. OrphanInv => NoOrphan BY DEF OrphanInv
<1> QED BY <1>2, <1>3, <1>4, PTL DEF BackendSpec

-----------------------------------------------------------------------------
\* Unless two starts were between their locks at once, there is at most one
\* there, and until it comes back the registry is empty: its token is not put
\* over another that is still needed.
OneStarting ==
  ~crowded => \A p \in Pings : ping[p] = "starting" =>
    /\ registry = NoPing
    /\ \A q \in Pings : ping[q] = "starting" => q = p

PingInv ==
  /\ registry \in Pings \cup {NoPing} /\ DOMAIN ping = Pings
  /\ OneStarting /\ PingsRegistered

LEMMA InitPingInv == PingInit => PingInv
BY DEF PingInit, PingInv, OneStarting, PingsRegistered

LEMMA NextPingInv == PingInv /\ [PingNext]_pingVars => PingInv'
<1> SUFFICES ASSUME PingInv, [PingNext]_pingVars PROVE PingInv' OBVIOUS
<1> USE NoPingAssumption DEF PingInv
<1>1. ASSUME NEW p \in Pings, PingStart(p) PROVE PingInv'
  <2>1. registry' \in Pings \cup {NoPing} /\ DOMAIN ping' = Pings
    BY <1>1 DEF PingStart, TakeOld
  <2>2. crowded' = (crowded \/ \E q \in Pings : ping[q] = "starting")
    BY <1>1 DEF PingStart
  <2>3. OneStarting' BY <1>1, <2>2 DEF PingStart, TakeOld, OneStarting
  <2>4. PingsRegistered' BY <1>1, <2>2 DEF PingStart, TakeOld, PingsRegistered
  <2> QED BY <2>1, <2>3, <2>4
<1>2. ASSUME NEW p \in Pings, PingPut(p) PROVE PingInv'
  <2>1. registry' \in Pings \cup {NoPing} /\ DOMAIN ping' = Pings
    BY <1>2 DEF PingPut
  <2>2. OneStarting' BY <1>2 DEF PingPut, OneStarting
  <2>3. PingsRegistered' BY <1>2 DEF PingPut, OneStarting, PingsRegistered
  <2> QED BY <2>1, <2>2, <2>3
<1>3. CASE PingStop
  <2>1. registry' \in Pings \cup {NoPing} /\ DOMAIN ping' = Pings
    BY <1>3 DEF PingStop, TakeOld
  <2>2. OneStarting' BY <1>3 DEF PingStop, TakeOld, OneStarting
  <2>3. PingsRegistered' BY <1>3 DEF PingStop, TakeOld, PingsRegistered
  <2> QED BY <2>1, <2>2, <2>3
<1>4. ASSUME NEW p \in Pings, PingEnds(p) PROVE PingInv'
  <2>1. registry' \in Pings \cup {NoPing} /\ DOMAIN ping' = Pings
    BY <1>4 DEF PingEnds
  <2>2. OneStarting' BY <1>4 DEF PingEnds, OneStarting
  <2>3. PingsRegistered' BY <1>4 DEF PingEnds, PingsRegistered
  <2> QED BY <2>1, <2>2, <2>3
<1>5. CASE UNCHANGED pingVars
  BY <1>5 DEF pingVars, OneStarting, PingsRegistered
<1> QED BY <1>1, <1>2, <1>3, <1>4, <1>5 DEF PingNext

\* As long as no start of the ping comes between the two locks of another, every
\* ping loop that goes on is the one the next stop or start cancels.
THEOREM PingsAlwaysRegistered == BackendSpec => []PingsRegistered
<1>1. BackendInit => PingInv BY InitPingInv DEF BackendInit
<1>2. PingInv /\ [BackendNext]_BackendVars => PingInv' BY NextPingInv, BackendParts
<1>3. PingInv => PingsRegistered BY DEF PingInv
<1> QED BY <1>1, <1>2, <1>3, PTL DEF BackendSpec

-----------------------------------------------------------------------------
(***************************************************************************)
(* The trie answers what the rules say, for every set of domains, any      *)
(* number of rules and whatever order they are loaded in.  The argument:   *)
(* the trie is at all times the set of the paths of the loaded rules, each *)
(* with its type at its end (TrieIsRules); a search has looked at every    *)
(* prefix of the host up to its depth (SearchIsBest); and it stops only    *)
(* where no longer prefix can have a rule.                                 *)
(***************************************************************************)
USE DomainsAssumption, MatchAssumption, LinesAssumption

LEMMA PrefixLen ==
    ASSUME NEW w \in Seq(Bytes), NEW k \in 0 .. Len(w)
    PROVE  Prefix(w, k) \in Seq(Bytes) /\ Len(Prefix(w, k)) = k
BY DEF Prefix

LEMMA PrefixOfPrefix ==
    ASSUME NEW w \in Seq(Bytes), NEW k \in 0 .. Len(w), NEW j \in 0 .. k
    PROVE  Prefix(Prefix(w, k), j) = Prefix(w, j)
BY DEF Prefix

LEMMA WholePrefix ==
    ASSUME NEW w \in Seq(Bytes)
    PROVE  Prefix(w, Len(w)) = w
BY DEF Prefix

LEMMA OwnPrefix ==
    ASSUME NEW w \in Seq(Bytes), w # <<>>
    PROVE  w \in Prefixes(w)
<1>1. Len(w) \in 1 .. Len(w)
  OBVIOUS
<1> QED
  BY <1>1, WholePrefix DEF Prefixes

-----------------------------------------------------------------------------
TrieTyped ==
    /\ loaded \subseteq [domain : Domains, type : MatchTypes]
    /\ domain \in Seq(Bytes)
    /\ depth \in 0 .. Len(domain)
    /\ phase \in {"loading", "serving", "searching", "panicked"}
    /\ phase = "loading" => depth = 0

(* The nodes are the paths of the loaded rules; the type of a rule stands  *)
(* at the end of its path and nowhere else.                                *)
TrieIsRules ==
    /\ \A r \in loaded : Prefixes(r.domain) \subseteq DOMAIN trie
    /\ \A n \in DOMAIN trie : \E r \in loaded : n \in Prefixes(r.domain)
    /\ \A r \in loaded : trie[r.domain] = r.type
    /\ \A n \in DOMAIN trie :
          trie[n] # NoMatch => Rule(n, trie[n]) \in loaded

(* The match so far is that of the longest prefix with a rule among those  *)
(* the search has followed.                                                *)
SearchIsBest ==
    phase = "searching" =>
        \/ /\ ret = NoMatch
           /\ \A j \in 1 .. depth : trie[Prefix(domain, j)] = NoMatch
        \/ \E k \in 1 .. depth :
              /\ ret = trie[Prefix(domain, k)] /\ ret # NoMatch
              /\ Prefix(domain, k) \in DOMAIN trie
              /\ \A j \in k + 1 .. depth : trie[Prefix(domain, j)] = NoMatch

TrieInv == TrieTyped /\ TrieIsRules /\ SearchIsBest /\ LongestRuleWins /\ PanicsOnlyOnPath

LEMMA TrieInitInv == TrieInit => TrieInv
BY DEF TrieInit, TrieInv, TrieTyped, TrieIsRules, SearchIsBest, LongestRuleWins, PanicsOnlyOnPath

LEMMA DomainsAreWords ==
    \A d \in Domains : d \in Seq(Bytes) /\ d # <<>> /\ d \in Prefixes(d)
BY OwnPrefix

LEMMA InsertKeepsTrie ==
    ASSUME TrieTyped, TrieIsRules, NEW d \in Domains, NEW type \in MatchTypes,
           d \notin DOMAIN trie,
           trie' = [WithPath(d) EXCEPT ![d] = type],
           loaded' = loaded \cup {Rule(d, type)}
    PROVE  TrieIsRules'
<1>1. DOMAIN trie' = DOMAIN trie \cup Prefixes(d)
  BY DEF WithPath
<1>2. trie'[d] = type
  BY DomainsAreWords DEF WithPath
<1>3. \A n \in DOMAIN trie : trie'[n] = trie[n]
  BY DEF WithPath
<1>4. \A n \in Prefixes(d) \ DOMAIN trie : n = d \/ trie'[n] = NoMatch
  BY DEF WithPath
<1>5. Rule(d, type) \in loaded' /\ Rule(d, type).domain = d /\ Rule(d, type).type = type
  BY DEF Rule
<1>6. \A r \in loaded : r.domain \in DOMAIN trie
  BY DomainsAreWords DEF TrieTyped, TrieIsRules
<1>7. \A r \in loaded' : Prefixes(r.domain) \subseteq DOMAIN trie'
  BY <1>1, <1>5 DEF TrieIsRules
<1>8. \A n \in DOMAIN trie' : \E r \in loaded' : n \in Prefixes(r.domain)
  BY <1>1, <1>5 DEF TrieIsRules
<1>9. \A r \in loaded' : trie'[r.domain] = r.type
  BY <1>2, <1>3, <1>5, <1>6 DEF TrieIsRules
<1>10. \A n \in DOMAIN trie' : trie'[n] # NoMatch => Rule(n, trie'[n]) \in loaded'
  BY <1>1, <1>2, <1>3, <1>4, <1>5 DEF TrieIsRules
<1> QED
  BY <1>7, <1>8, <1>9, <1>10 DEF TrieIsRules

(* Where a search stops, no longer prefix of the host has a rule. *)
LEMMA NothingBeyond ==
    ASSUME TrieInv, ~Following, NEW r \in RulesFor(domain)
    PROVE  \E k \in 1 .. depth : r.domain = Prefix(domain, k)
<1>1. PICK k \in 1 .. Len(domain) : r.domain = Prefix(domain, k)
  BY DEF RulesFor, Prefixes
<1>2. domain \in Seq(Bytes) /\ Len(domain) \in Nat /\ depth \in 0 .. Len(domain)
  BY DEF TrieInv, TrieTyped
<1>3. ASSUME k > depth PROVE FALSE
  <2>1. depth + 1 \in 0 .. k /\ depth < Len(domain)
    BY <1>2, <1>3
  <2>2. Prefix(domain, depth + 1) = Prefix(r.domain, depth + 1)
    BY <1>1, <1>2, <2>1, PrefixOfPrefix
  <2>3. Len(r.domain) = k
    BY <1>1, <1>2, PrefixLen
  <2>4. Prefix(domain, depth + 1) \in Prefixes(r.domain)
    BY <1>2, <2>1, <2>2, <2>3 DEF Prefixes
  <2>5. Prefix(domain, depth + 1) \in DOMAIN trie
    BY <2>4 DEF TrieInv, TrieIsRules, RulesFor
  <2> QED
    BY <2>1, <2>5 DEF Following
<1> QED
  BY <1>1, <1>2, <1>3

LEMMA AnswerIsRoute == TrieInv /\ Answer => IsRouteOf(domain, ret')
<1> SUFFICES ASSUME TrieInv, Answer PROVE IsRouteOf(domain, ret')
  OBVIOUS
<1>1. domain \in Seq(Bytes) /\ Len(domain) \in Nat /\ depth \in 0 .. Len(domain)
  BY DEF TrieInv, TrieTyped
<1>2. phase = "searching" /\ ~Following
  BY DEF Answer
<1>3. \A r \in RulesFor(domain) : trie[r.domain] # NoMatch
  BY DEF RulesFor, TrieInv, TrieIsRules, TrieTyped
<1>4. CASE /\ ret = NoMatch
           /\ \A j \in 1 .. depth : trie[Prefix(domain, j)] = NoMatch
  <2>1. RulesFor(domain) = {}
    BY <1>2, <1>3, <1>4, NothingBeyond
  <2>2. ret' = DefaultRule
    BY <1>4 DEF Answer
  <2> QED
    BY <2>1, <2>2 DEF IsRouteOf
<1>5. ASSUME NEW k \in 1 .. depth,
             ret = trie[Prefix(domain, k)], ret # NoMatch,
             Prefix(domain, k) \in DOMAIN trie,
             \A j \in k + 1 .. depth : trie[Prefix(domain, j)] = NoMatch
      PROVE  IsRouteOf(domain, ret')
  <2>1. Rule(Prefix(domain, k), ret) \in loaded
    BY <1>5 DEF TrieInv, TrieIsRules
  <2>2. k \in 1 .. Len(domain) /\ k \in 0 .. Len(domain)
    BY <1>1
  <2>3. Rule(Prefix(domain, k), ret) \in RulesFor(domain)
    BY <2>1, <2>2 DEF RulesFor, Rule, Prefixes
  <2>4. ret' = ret
    BY <1>5 DEF Answer
  <2>5. ASSUME NEW s \in RulesFor(domain)
        PROVE  Len(s.domain) <= k
    <3>1. PICK j \in 1 .. depth : s.domain = Prefix(domain, j)
      BY <1>2, NothingBeyond
    <3>2. ~(j \in k + 1 .. depth)
      BY <1>3, <1>5, <3>1
    <3>3. Len(s.domain) = j
      BY <1>1, <3>1, PrefixLen
    <3> QED
      BY <1>1, <3>2, <3>3
  <2>6. Len(Prefix(domain, k)) = k
    BY <1>1, <2>2, PrefixLen
  <2>7. Rule(Prefix(domain, k), ret).type = ret' /\ Rule(Prefix(domain, k), ret).domain = Prefix(domain, k)
    BY <2>4 DEF Rule
  <2> QED
    BY <2>3, <2>5, <2>6, <2>7 DEF IsRouteOf
<1> QED
  BY <1>2, <1>4, <1>5 DEF TrieInv, SearchIsBest

LEMMA FollowKeepsSearch == TrieInv /\ Follow => SearchIsBest'
<1> SUFFICES ASSUME TrieInv, Follow PROVE SearchIsBest'
  OBVIOUS
<1> DEFINE node == Prefix(domain, depth + 1)
<1>1. domain \in Seq(Bytes) /\ Len(domain) \in Nat /\ depth \in Nat
  BY DEF TrieInv, TrieTyped
<1>2. /\ depth' = depth + 1 /\ UNCHANGED <<trie, domain, phase>>
      /\ node \in DOMAIN trie /\ phase = "searching"
      /\ ret' = IF trie[node] # NoMatch THEN trie[node] ELSE ret
  BY DEF Follow, Following, Better
<1>3. CASE trie[node] # NoMatch
  <2>1. depth + 1 \in 1 .. depth' /\ (depth + 1) + 1 .. depth' = {}
    BY <1>1, <1>2
  <2> QED
    BY <1>2, <1>3, <2>1 DEF SearchIsBest
<1>4. CASE trie[node] = NoMatch
  <2>1. \A j \in 1 .. depth' : j \in 1 .. depth \/ j = depth + 1
    BY <1>1, <1>2
  <2>2. ret' = ret
    BY <1>2, <1>4
  <2>3. CASE /\ ret = NoMatch
             /\ \A j \in 1 .. depth : trie[Prefix(domain, j)] = NoMatch
    BY <1>2, <1>4, <2>1, <2>2, <2>3 DEF SearchIsBest
  <2>4. ASSUME NEW k \in 1 .. depth,
               ret = trie[Prefix(domain, k)], ret # NoMatch,
               Prefix(domain, k) \in DOMAIN trie,
               \A j \in k + 1 .. depth : trie[Prefix(domain, j)] = NoMatch
        PROVE  SearchIsBest'
    <3>1. k \in 1 .. depth'
      BY <1>1, <1>2
    <3>2. \A j \in k + 1 .. depth' : j \in k + 1 .. depth \/ j = depth + 1
      BY <1>1, <1>2
    <3> QED
      BY <1>2, <1>4, <2>2, <2>4, <3>1, <3>2 DEF SearchIsBest
  <2> QED
    BY <1>2, <2>3, <2>4 DEF TrieInv, SearchIsBest
<1> QED
  BY <1>3, <1>4

LEMMA TrieKeepsInv == TrieInv /\ [TrieNext]_trieVars => TrieInv'
<1> SUFFICES ASSUME TrieInv, [TrieNext]_trieVars PROVE TrieInv'
  OBVIOUS
<1>1. CASE LoadRule
  <2>1. PICK d \in Domains, type \in MatchTypes : Insert(d, type) /\ domain' = d
    BY <1>1 DEF LoadRule
  <2>2. phase = "loading" /\ UNCHANGED <<depth, ret>>
    BY <1>1 DEF LoadRule
  <2>3. d \in Seq(Bytes) /\ Len(d) \in Nat /\ Rule(d, type) \in [domain : Domains, type : MatchTypes]
    BY DEF Rule
  <2>4. CASE d \in DOMAIN trie
    <3>1. phase' = "panicked" /\ UNCHANGED <<loaded, trie>>
      BY <2>1, <2>4 DEF Insert
    <3>2. PanicsOnlyOnPath'
      BY <2>1, <2>4, <3>1 DEF TrieInv, TrieIsRules, PanicsOnlyOnPath
    <3> QED
      BY <2>1, <2>2, <2>3, <3>1, <3>2
         DEF TrieInv, TrieTyped, TrieIsRules, SearchIsBest, LongestRuleWins
  <2>5. CASE d \notin DOMAIN trie
    <3>1. /\ trie' = [WithPath(d) EXCEPT ![d] = type]
          /\ loaded' = loaded \cup {Rule(d, type)} /\ UNCHANGED phase
      BY <2>1, <2>5 DEF Insert
    <3>2. TrieIsRules'
      BY <2>5, <3>1, InsertKeepsTrie DEF TrieInv
    <3> QED
      BY <2>1, <2>2, <2>3, <3>1, <3>2
         DEF TrieInv, TrieTyped, SearchIsBest, LongestRuleWins, PanicsOnlyOnPath
  <2> QED
    BY <2>4, <2>5
<1>2. CASE SkipLine \/ UNCHANGED trieVars
  BY <1>2 DEF SkipLine, trieVars, TrieInv, TrieTyped, TrieIsRules, SearchIsBest, LongestRuleWins,
              PanicsOnlyOnPath, IsRouteOf, RulesFor
<1>3. CASE Loaded
  <2>1. Prefixes(<<>>) = {}
    BY DEF Prefixes
  <2>2. IsRouteOf(domain, ret)'
    BY <1>3, <2>1 DEF Loaded, IsRouteOf, RulesFor
  <2> QED
    BY <1>3, <2>2 DEF Loaded, TrieInv, TrieTyped, TrieIsRules, SearchIsBest, LongestRuleWins,
                      PanicsOnlyOnPath, IsRouteOf, RulesFor
<1>4. CASE Match
  BY <1>4 DEF Match, TrieInv, TrieTyped, TrieIsRules, SearchIsBest, LongestRuleWins,
              PanicsOnlyOnPath
<1>5. CASE Follow
  <2>1. SearchIsBest'
    BY <1>5, FollowKeepsSearch
  <2>2. TrieTyped'
    BY <1>5 DEF Follow, Following, TrieInv, TrieTyped
  <2> QED
    BY <1>5, <2>1, <2>2 DEF Follow, TrieInv, TrieIsRules, LongestRuleWins, PanicsOnlyOnPath
<1>6. CASE Answer
  <2>1. LongestRuleWins'
    BY <1>6, AnswerIsRoute DEF Answer, LongestRuleWins, IsRouteOf, RulesFor
  <2> QED
    BY <1>6, <2>1 DEF Answer, TrieInv, TrieTyped, TrieIsRules, SearchIsBest, PanicsOnlyOnPath
<1> QED
  BY <1>1, <1>2, <1>3, <1>4, <1>5, <1>6 DEF TrieNext

-----------------------------------------------------------------------------
(* match_domain returns the type of the rule with the longest domain that  *)
(* the host ends with, and the default rule when there is none, whatever   *)
(* the rules and the order in which they were loaded.                      *)
THEOREM RouteIsLongestRule == TrieSpec => []LongestRuleWins
<1>1. TrieInv => LongestRuleWins
  BY DEF TrieInv
<1> QED
  BY TrieInitInv, TrieKeepsInv, <1>1, PTL DEF TrieSpec

(* Loading the rules is given up only for a domain that a rule before it   *)
(* ends with: an equal domain is the special case the message names.       *)
THEOREM PanicIsOnPath == TrieSpec => []PanicsOnlyOnPath
<1>1. TrieInv => PanicsOnlyOnPath
  BY DEF TrieInv
<1> QED
  BY TrieInitInv, TrieKeepsInv, <1>1, PTL DEF TrieSpec
=============================================================================
