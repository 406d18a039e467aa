------------------------------- MODULE PingLoop -------------------------------
(***************************************************************************)
(* The other loop of the desktop backend, src-tauri/src/ping.rs: asks the  *)
(* server every minute whether it is there, which keeps the host alive,    *)
(* and tells the user once it is not.  Like the proxy's, its cancellation  *)
(* token lies behind a mutex; unlike there a start locks it twice, once to *)
(* take the old token and once to put down its own.                        *)
(*                                                                         *)
(* A start, its token and its loop are the same value.                     *)
(***************************************************************************)
EXTENDS Naturals

CONSTANTS
  Pings,      \* bound: one per tauri_interval_ping_start
  NoPing

ASSUME NoPingAssumption == NoPing \notin Pings

VARIABLES
  registry,   \* Ping.0
  stale,      \* tokens on which cancel was called
  ping,       \* how far each start and its loop are
  crowded     \* two starts were between their locks at once

pingVars == <<registry, stale, ping, crowded>>

PingInit ==
  /\ registry = NoPing /\ stale = {} /\ crowded = FALSE
  /\ ping = [p \in Pings |-> "unused"]

\* Mutant: the old token is dropped, not cancelled.
DropOld == registry' = NoPing /\ UNCHANGED stale

TakeOld ==
  /\ stale' = IF registry = NoPing THEN stale ELSE stale \cup {registry}
  /\ registry' = NoPing

PingStart(p) ==
  /\ ping[p] = "unused"
  /\ TakeOld
  /\ ping' = [ping EXCEPT ![p] = "starting"]
  /\ crowded' = (crowded \/ \E q \in Pings : ping[q] = "starting")

\* replace drops what another start has put there meanwhile.
PingPut(p) ==
  /\ ping[p] = "starting"
  /\ registry' = p
  /\ ping' = [ping EXCEPT ![p] = "looping"]
  /\ UNCHANGED <<stale, crowded>>

PingStop == TakeOld /\ UNCHANGED <<ping, crowded>>

\* The token is looked at before and after a ping; without an answer the loop
\* shows a notice and ends as well.  Its token stays where it is.
PingEnds(p) ==
  /\ ping[p] = "looping"
  /\ ping' = [ping EXCEPT ![p] = "ended"]
  /\ UNCHANGED <<registry, stale, crowded>>

PingNext == PingStop \/ \E p \in Pings : PingStart(p) \/ PingPut(p) \/ PingEnds(p)

-----------------------------------------------------------------------------
\* As long as no two starts are between their locks at once, every loop that
\* goes on uncancelled is the registered one, so that a reload can stop it and
\* the next start replaces it: no loop pings a host that was left (ping.rs:29-36).
PingsRegistered == ~crowded =>
  \A p \in Pings : ping[p] = "looping" /\ p \notin stale => registry = p
=============================================================================
