------------------------------ MODULE KeepAlive ------------------------------
(***************************************************************************)
(* A client that keeps its host: the ping loop of the desktop backend      *)
(* (src-tauri/src/ping.rs) or of the VPN on a phone (src-vpn/src/ping.rs)  *)
(* beside the server that destroys itself when nobody pings.  Neither      *)
(* knows the other's period, and the request has no timeout.               *)
(***************************************************************************)
EXTENDS IdleShutdown

CONSTANTS
  PingPeriod,  \* the interval of the loop, 60 s
  Latency,     \* a request that takes longer makes the client slow
  MaxMissed    \* bound: pings without an answer in a row

ASSUME KeepAssumption ==
  /\ PingPeriod \in Nat \ {0} /\ Latency \in 0 .. PingPeriod /\ MaxMissed \in Nat

VARIABLES
  kind,       \* "desktop" or "phone"
  loop,       \* off, waiting (for a tick), asking, accepted (by the server), ended
  untilPing,  \* time to the next tick; negative: ticks missed
  missed,     \* pings in a row that the server did not accept
  heard,      \* the server has accepted a ping of the loop that goes on
  slow        \* it was suspended over a tick, or a request exceeded Latency

loopVars == <<kind, loop, untilPing, missed, heard, slow>>
keepVars == <<vars, loopVars>>

KeepInit ==
  /\ Init
  /\ kind \in {"desktop", "phone"} /\ loop = "off"
  /\ untilPing = 0 /\ missed = 0 /\ heard = FALSE /\ slow = FALSE

Going == loop \in {"waiting", "asking", "accepted"}
-----------------------------------------------------------------------------
\* The loop is started; the first tick of an interval is immediate.
StartLoop ==
  /\ ~Going /\ clients = "active"
  /\ loop' = "waiting"
  /\ untilPing' = 0 /\ missed' = 0 /\ slow' = FALSE
  /\ UNCHANGED <<vars, kind, heard>>

\* Mutant: asks without waiting for the tick.
AskAtOnce ==
  /\ loop = "waiting"
  /\ loop' = "asking"
  /\ untilPing' = untilPing + PingPeriod
  /\ UNCHANGED <<vars, kind, missed, heard, slow>>

\* interval.tick and the request.
Ask ==
  /\ loop = "waiting" /\ untilPing <= 0
  /\ loop' = "asking"
  /\ untilPing' = untilPing + PingPeriod
  /\ UNCHANGED <<vars, kind, missed, heard, slow>>

\* The request reaches the server.
Reach ==
  /\ loop = "asking" /\ Ping
  /\ loop' = "accepted"
  /\ missed' = 0 /\ heard' = TRUE
  /\ UNCHANGED <<kind, untilPing, slow>>

Pong ==
  /\ loop = "accepted"
  /\ loop' = "waiting"
  /\ UNCHANGED <<vars, kind, untilPing, missed, heard, slow>>

\* The request or its answer is lost, or the status is not OK: the desktop tells
\* the user and ends its loop, the phone goes on.
PingFails ==
  /\ loop \in {"asking", "accepted"} /\ missed < MaxMissed
  /\ IF kind = "desktop"
     THEN loop' = "ended" /\ heard' = FALSE /\ UNCHANGED missed
     ELSE /\ loop' = "waiting" /\ UNCHANGED heard
          /\ missed' = IF loop = "asking" THEN missed + 1 ELSE missed
  /\ UNCHANGED <<vars, kind, untilPing, slow>>

\* The token is cancelled, at a tick or while a request is under way.
Cancel ==
  /\ Going
  /\ loop' = "ended" /\ heard' = FALSE
  /\ UNCHANGED <<vars, kind, untilPing, missed, slow>>

\* A window that connects, another client, or a request whose sender has given up.
OtherPing == Ping /\ UNCHANGED loopVars

ServerAlone ==
  /\ Timer \/ Vanish \/ (ClientsLeave /\ ~Going) \/ \E k \in Steps : SetClock(k)
  /\ UNCHANGED loopVars

\* While a request is under way the tick before it was PingPeriod - untilPing ago.
Overdue ==
  \/ loop = "waiting" /\ untilPing <= 0
  \/ loop \in {"asking", "accepted"} /\ PingPeriod - untilPing >= Latency

Pass ==
  /\ Elapse
  /\ untilPing' = IF Going THEN Max({untilPing - 1, -PingPeriod}) ELSE untilPing
  /\ slow' = (slow \/ Overdue)
  /\ UNCHANGED <<kind, loop, missed, heard>>

Loop == StartLoop \/ Ask \/ Reach \/ Pong \/ PingFails \/ Cancel

KeepNext == Loop \/ OtherPing \/ ServerAlone \/ Pass
KeepSpec == KeepInit /\ [][KeepNext]_keepVars

\* Nothing is asked of the client or of the network.
KeepFairSpec == KeepSpec /\ Fairness

-----------------------------------------------------------------------------
KeepTypeOK ==
  /\ TypeOK
  /\ kind \in {"desktop", "phone"}
  /\ loop \in {"off", "waiting", "asking", "accepted", "ended"}
  /\ untilPing \in -PingPeriod .. PingPeriod
  /\ missed \in 0 .. MaxMissed /\ heard \in BOOLEAN /\ slow \in BOOLEAN
  /\ heard => Going

\* A host in use is given up only for one of two reasons, as long as a loop goes on
\* that was neither suspended nor kept waiting for an answer.  So many pings in a row
\* were lost that their periods exceed the limit, to within what the wall clock was set
\* by; on the desktop, whose loop ends after the first and says so, a single period
\* must exceed it.  Or the difference wrapped, as in CheckIsExact: a ping came between the reading
\* of the clock and the comparison, or the clock was set back past the last one.
UsedHostKept ==
  [][timer = "reading" /\ timer' = "describing" /\ heard /\ ~slow =>
       \/ Age < Drift
       \/ /\ (missed + 1) * PingPeriod + Latency > IdleLimit - Drift
          /\ kind = "desktop" => PingPeriod + Latency > IdleLimit - Drift]_keepVars
=============================================================================
