---------------------------- MODULE AddressLease ----------------------------
(***************************************************************************)
(* What the virtual DNS promises, without its LRU list, its two maps or    *)
(* its scan: an address is leased to one name for Term units of time, a    *)
(* lease is renewed by use, an address goes to another name only after its *)
(* lease has run out, and a name is refused only when every address of the *)
(* pool is under a lease that has not run out.                             *)
(***************************************************************************)
EXTENDS Integers

CONSTANTS Names, Addr, NoIp, Term

VARIABLES clock, lease, reply

vars == <<clock, lease, reply>>

Live == {ip \in DOMAIN lease : clock <= lease[ip].until}

Kept == [ip \in Live |-> lease[ip]]

Later == {t \in Nat : t >= clock}

Lease(name, from) == [name |-> name, until |-> from + Term]

Init ==
  /\ clock \in Nat
  /\ lease = << >>
  /\ reply \in [name : Names, ip : {NoIp}]

\* The name holds a live lease: it is renewed.
Renew(name) == \E ip \in Live :
  /\ lease[ip].name = name
  /\ clock' \in Later
  /\ lease' = [Kept EXCEPT ![ip] = Lease(name, clock')]
  /\ reply' = [name |-> name, ip |-> ip]

\* No live lease for the name: any address without a live lease is granted.
Grant(name) == \E ip \in Addr \ Live :
  /\ \A other \in Live : lease[other].name # name
  /\ clock' \in Later
  /\ lease' = [other \in Live \cup {ip} |->
                 IF other = ip THEN Lease(name, clock') ELSE lease[other]]
  /\ reply' = [name |-> name, ip |-> ip]

\* Every address is under a live lease and none is the name's.
Refuse(name) ==
  /\ Live = Addr
  /\ \A ip \in Live : lease[ip].name # name
  /\ reply' = [name |-> name, ip |-> NoIp]
  /\ UNCHANGED <<clock, lease>>

\* A connection to a leased address renews the lease, even one that has run
\* out, as long as nobody has asked for a name since.
Use(ip) ==
  /\ ip \in DOMAIN lease
  /\ lease' = [lease EXCEPT ![ip].until = clock + Term]
  /\ UNCHANGED <<clock, reply>>

Pass == clock' \in Later \ {clock} /\ UNCHANGED <<lease, reply>>

\* The VPN is stopped and started: nothing is persisted.
Forget == lease' = << >> /\ UNCHANGED <<clock, reply>>

Next ==
  \/ \E name \in Names : Renew(name) \/ Grant(name) \/ Refuse(name)
  \/ \E ip \in Addr : Use(ip)
  \/ Pass
  \/ Forget

Spec == Init /\ [][Next]_vars

-----------------------------------------------------------------------------
\* A name has one address.
OneAddressEach ==
  \A a, b \in DOMAIN lease : lease[a].name = lease[b].name => a = b

Typed ==
  /\ clock \in Nat
  /\ DOMAIN lease \subseteq Addr
  /\ lease \in [DOMAIN lease -> [name : Names, until : Nat]]
  /\ \A ip \in DOMAIN lease : lease[ip].until <= clock + Term

\* A lease that has not run out is not taken away, shortened or given to another
\* name, unless all are forgotten.
Holds ==
  \/ Forget
  \/ \A ip \in Live : /\ ip \in DOMAIN lease'
                       /\ lease'[ip].name = lease[ip].name
                       /\ lease'[ip].until >= lease[ip].until

HeldToTheEnd == [][Holds]_vars
=============================================================================
