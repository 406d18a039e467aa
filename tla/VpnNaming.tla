------------------------------ MODULE VpnNaming ------------------------------
(***************************************************************************)
(* The virtual DNS together with the applications that use it through the  *)
(* TUN device: handle_virtual_dns_session answers a query, the application *)
(* keeps the answer for the TTL written into it, opens TCP connections to  *)
(* the address, and start_run_vpn resolves the address back to a name when *)
(* it accepts one.                                                         *)
(***************************************************************************)
EXTENDS VirtualDns, FiniteSets

CONSTANTS
  AnswerLife,  \* the TTL of an answer (5 s) plus the time a packet is under way
  MaxConns,    \* bound: connections open at once
  NoName       \* resolve_ip found nothing: the bare address is dialled

ASSUME AnswerLifeAssumption == AnswerLife \in Nat /\ AnswerLife <= MappingTimeout
ASSUME NoNameAssumption == NoName \notin Names

VARIABLES
  answers,  \* the newest answer received for each name; it may be past its life
  conns     \* open TCP connections

allVars == <<now, lru, entry, nameToIp, nextAddr, reply, answers, conns>>

VpnInit == Init /\ answers = {} /\ conns = {}

-----------------------------------------------------------------------------
Received(name) ==
  {a \in answers : a.name # name}
    \cup {[name |-> name, ip |-> reply'.ip, until |-> now' + AnswerLife, earlierRun |-> FALSE]}

\* Mutant: a refusal is answered as if it were an address.
AnswerRefusals(name) == Query(name) /\ answers' = Received(name) /\ UNCHANGED conns

\* handle_virtual_dns_session.  The query may fail (no address), and building
\* the response or writing it to the device may fail too: then no answer is
\* received, although the mapping stays.
DnsSession(name) ==
  /\ Query(name)
  /\ \/ reply'.ip # NoIp /\ answers' = Received(name)
     \/ UNCHANGED answers
  /\ UNCHANGED conns

\* resolve_ip.
NameOf(ip) == IF ip \in DOMAIN entry THEN entry[ip].name ELSE NoName

Timely(a) == now <= a.until /\ ~a.earlierRun

\* start_run_vpn accepts a TCP connection to the address of an answer that the
\* application still holds, timely or not.
Accept(a) ==
  /\ Cardinality(conns) < MaxConns
  /\ IF a.ip \in DOMAIN entry THEN TouchAndResolve(a.ip) ELSE UNCHANGED vars
  /\ conns' = conns \cup {[ip |-> a.ip, dialled |-> NameOf(a.ip)]}
  /\ UNCHANGED answers

\* An open connection carries packets: they never reach VirtualDns.  It ends
\* when either side closes it.
Close(c) == conns' = conns \ {c} /\ UNCHANGED <<vars, answers>>

Elapse == Tick /\ UNCHANGED <<answers, conns>>

\* The Android service stops and starts the VPN: every task of the old runtime
\* is dropped, but what applications have cached is not.
RestartVpn ==
  /\ Restart
  /\ answers' = {[a EXCEPT !.earlierRun = TRUE] : a \in answers}
  /\ conns' = {}

VpnNext ==
  \/ \E name \in Names : DnsSession(name)
  \/ \E a \in answers : Accept(a)
  \/ \E c \in conns : Close(c)
  \/ Elapse
  \/ RestartVpn

VpnSpec == VpnInit /\ [][VpnNext]_allVars

-----------------------------------------------------------------------------
VpnTypeOK ==
  /\ TypeOK
  /\ answers \subseteq [name : Names, ip : Addr, until : Nat, earlierRun : BOOLEAN]
  /\ conns \subseteq [ip : Addr, dialled : Names \cup {NoName}]

\* As long as an answer may be used, its address resolves to the name that was
\* asked for, whatever other queries, purges and wrap-arounds of the scan come
\* in between: a connection made in that time is dialled to that name, never to
\* another site and never to the bare virtual address.
AnswersHonoured == \A a \in answers : Timely(a) => NameOf(a.ip) = a.name
=============================================================================
