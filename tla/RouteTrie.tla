------------------------------ MODULE RouteTrie ------------------------------
(***************************************************************************)
(* Which way a host goes: the rules of src-proxy/src/route.rs, loaded line *)
(* by line into a trie over the bytes of the domains read from their last  *)
(* to their first, and then searched for every CONNECT.                    *)
(*                                                                         *)
(* A domain or host is the sequence of its bytes in that reading order, so *)
(* a suffix of a domain is a prefix here.  A node of the trie is named by  *)
(* the path that leads to it.  Parsing a line is abstracted to what comes  *)
(* of it: a domain with a match type, or nothing.                          *)
(***************************************************************************)
EXTENDS Naturals, Sequences

CONSTANTS
    Bytes,          \* the bytes of domains and hosts
    Domains,        \* the domains of rules, as non-empty sequences of bytes
    HostNames,      \* the hosts of CONNECT requests, likewise
    MatchTypes,     \* deny, direct and proxy
    DefaultRule,    \* the match type of a host no rule is for
    NoMatch,        \* Option::None
    MaxLines        \* bound: the lines of the rules

ASSUME DomainsAssumption ==
    Domains \subseteq Seq(Bytes) \ {<<>>} /\ HostNames \subseteq Seq(Bytes)
ASSUME MatchAssumption   == DefaultRule \in MatchTypes /\ NoMatch \notin MatchTypes
ASSUME LinesAssumption   == MaxLines \in Nat

VARIABLES
    lines,          \* how many lines have been read
    loaded,         \* the rules inserted so far: records of domain and type
    trie,           \* the match type of every node below the root
    rulesCount,     \* rules_count
    phase,          \* "loading", then "serving"; or "panicked"
    domain,         \* the rule being inserted, or the host being matched
    depth,          \* search: how many bytes have been followed
    ret             \* search: the match so far, then what match_domain returns

trieVars == <<lines, loaded, trie, rulesCount, phase, domain, depth, ret>>

Prefix(w, k)  == SubSeq(w, 1, k)
Prefixes(w)   == {Prefix(w, k) : k \in 1 .. Len(w)}
Rule(d, type) == [domain |-> d, type |-> type]

-----------------------------------------------------------------------------
TrieInit ==
    /\ lines = 0 /\ loaded = {} /\ trie = [n \in {} |-> NoMatch] /\ rulesCount = 0
    /\ phase = "loading"
    /\ domain = <<>> /\ depth = 0 /\ ret = NoMatch

(* entry(..).or_default() along the path. *)
WithPath(w) == [n \in DOMAIN trie \cup Prefixes(w) |->
                    IF n \in DOMAIN trie THEN trie[n] ELSE NoMatch]

(* Mutant: any node met on the way is taken for a duplicate. *)
PanicsOnAnyNode(d, type) ==
    IF Prefixes(d) \cap DOMAIN trie # {}
    THEN phase' = "panicked" /\ UNCHANGED <<loaded, trie, rulesCount>>
    ELSE /\ trie' = [WithPath(d) EXCEPT ![d] = type]
         /\ loaded' = loaded \cup {Rule(d, type)}
         /\ rulesCount' = rulesCount + 1
         /\ UNCHANGED phase

(* The last node of the path must be new, whether the one that is there    *)
(* holds a rule or is only on the way to one.                              *)
Insert(d, type) ==
    IF d \in DOMAIN trie
    THEN phase' = "panicked" /\ UNCHANGED <<loaded, trie, rulesCount>>
    ELSE /\ trie' = [WithPath(d) EXCEPT ![d] = type]
         /\ loaded' = loaded \cup {Rule(d, type)}
         /\ rulesCount' = rulesCount + 1
         /\ UNCHANGED phase

(* One line of load_rules with a rule in it. *)
LoadRule ==
    /\ phase = "loading" /\ lines < MaxLines
    /\ lines' = lines + 1
    /\ \E d \in Domains, type \in MatchTypes : Insert(d, type) /\ domain' = d
    /\ UNCHANGED <<depth, ret>>

(* A blank line, a comment or a bad rule. *)
SkipLine ==
    /\ phase = "loading" /\ lines < MaxLines
    /\ lines' = lines + 1
    /\ UNCHANGED <<loaded, trie, rulesCount, phase, domain, depth, ret>>

Loaded ==
    /\ phase = "loading"
    /\ phase' = "serving"
    /\ domain' = <<>> /\ depth' = 0 /\ ret' = DefaultRule
    /\ UNCHANGED <<lines, loaded, trie, rulesCount>>

(* match_domain starts at the root. *)
Match ==
    /\ phase = "serving"
    /\ \E host \in HostNames : domain' = host
    /\ phase' = "searching"
    /\ depth' = 0 /\ ret' = NoMatch
    /\ UNCHANGED <<lines, loaded, trie, rulesCount>>

Following == depth < Len(domain) /\ Prefix(domain, depth + 1) \in DOMAIN trie

(* Mutant: the first match is the one that counts. *)
FirstMatch(node) == IF ret = NoMatch THEN trie[node] ELSE ret

Better(node) == IF trie[node] # NoMatch THEN trie[node] ELSE ret

Follow ==
    /\ phase = "searching" /\ Following
    /\ depth' = depth + 1
    /\ ret' = Better(Prefix(domain, depth + 1))
    /\ UNCHANGED <<lines, loaded, trie, rulesCount, phase, domain>>

Answer ==
    /\ phase = "searching" /\ ~Following
    /\ ret' = IF ret = NoMatch THEN DefaultRule ELSE ret
    /\ phase' = "serving"
    /\ UNCHANGED <<lines, loaded, trie, rulesCount, domain, depth>>

TrieNext == LoadRule \/ SkipLine \/ Loaded \/ Match \/ Follow \/ Answer

TrieSpec == TrieInit /\ [][TrieNext]_trieVars

-----------------------------------------------------------------------------
(* The rules for a host, and the one of the longest domain among them.     *)
RulesFor(host) == {r \in loaded : r.domain \in Prefixes(host)}
IsRouteOf(host, type) ==
    \/ RulesFor(host) = {} /\ type = DefaultRule
    \/ \E r \in RulesFor(host) :
          /\ r.type = type
          /\ \A s \in RulesFor(host) : Len(s.domain) <= Len(r.domain)

(* What match_domain promises: the host goes the way of the rule with the  *)
(* longest domain the host ends with, in whatever order the rules stand,   *)
(* and the default way when there is none.                                 *)
LongestRuleWins == phase = "serving" => IsRouteOf(domain, ret)

(* Loading is given up only for a domain that an earlier rule ends with.   *)
PanicsOnlyOnPath ==
    phase = "panicked" => \E r \in loaded : domain \in Prefixes(r.domain)
=============================================================================
