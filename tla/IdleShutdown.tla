---------------------------- MODULE IdleShutdown ----------------------------
(***************************************************************************)
(* The self-destruction of an idle proxy server (src-server): the timer    *)
(* task of main, Context's last_ping_ts, the ping handler, and the two     *)
(* Tencent API calls that end the host.                                    *)
(*                                                                         *)
(* Time is modelled by ages, so that it has no end: sinceTouch is the wall *)
(* clock less last_ping_ts, sinceRead the wall clock less the value that   *)
(* is_ping_expired read on its first line.  Ages saturate at Cap, beyond   *)
(* which every comparison has the same outcome.                            *)
(***************************************************************************)
EXTENDS Integers, FiniteSetsExt

CONSTANTS
  IdleLimit,  \* 60 * 10
  Period,     \* the interval of the timer, 60 s
  LockDelay,  \* bound: ticks between reading the clock and holding the lock
  Steps,      \* how far the wall clock may be set back or forth at a time
  MaxStep,    \* bound on Steps
  MaxSets,    \* bound: how often the wall clock is set
  U64         \* 2^64, or any modulus beyond Cap: diff is unsigned and wraps

Skew == MaxStep * MaxSets
Cap == IdleLimit + LockDelay + Skew + 1

ASSUME BoundsAssumption ==
  /\ IdleLimit \in Nat \ {0} /\ Period \in Nat \ {0}
  /\ LockDelay \in Nat /\ MaxStep \in Nat /\ MaxSets \in Nat
  /\ Steps \subseteq -MaxStep .. MaxStep
  /\ U64 \in Nat /\ U64 > 2 * (Cap + Skew)

VARIABLES
  sinceTouch,  \* wall clock - last_ping_ts; negative after the clock is set back
  sinceRead,   \* wall clock - now, while is_ping_expired waits for the lock
  due,         \* time to the next tick of the interval; negative: ticks missed
  timer,       \* where the timer task is, or "dead" after a panic
  host,        \* the instance: running, terminating (accepted by the API), gone
  setsLeft,    \* how often the wall clock may still be set
  clients,     \* whether any client will ever ask for something again
  idle         \* true time since the last accepted ping

vars == <<sinceTouch, sinceRead, due, timer, host, setsLeft, clients, idle>>

Init ==
  /\ sinceTouch = 0 /\ sinceRead = 0 /\ idle = 0
  /\ due = Period          \* main consumes the first, immediate tick
  /\ timer = "waiting" /\ host = "running" /\ clients = "active"
  /\ setsLeft = MaxSets

Up == host # "gone"

AtMost(age) == Min({age, Cap})
-----------------------------------------------------------------------------
\* Mutant: the handler answers and leaves the clock alone.
PingForgets ==
  /\ Up /\ clients = "active"
  /\ idle' = 0
  /\ UNCHANGED <<sinceTouch, sinceRead, due, timer, host, setsLeft, clients>>

\* ping_handler with the right token: touch_ping_ts reads the clock under the
\* lock.  The answer is sent whatever the timer has decided meanwhile.  A proxied
\* request leaves the clock alone and is no action here.
Ping ==
  /\ Up /\ clients = "active"
  /\ sinceTouch' = 0 /\ idle' = 0
  /\ UNCHANGED <<sinceRead, due, timer, host, setsLeft, clients>>

ClientsLeave ==
  /\ clients = "active"
  /\ clients' = "left"
  /\ UNCHANGED <<sinceTouch, sinceRead, due, timer, host, setsLeft, idle>>

\* A tick of the interval; the next is due one Period after this one was, so
\* ticks that were missed follow at once (MissedTickBehavior::Burst).
\* is_ping_expired then reads the clock (context.rs:40).
StartCheck ==
  /\ Up /\ timer = "waiting" /\ due <= 0
  /\ timer' = "reading" /\ sinceRead' = 0
  /\ due' = due + Period
  /\ UNCHANGED <<sinceTouch, host, setsLeft, clients, idle>>

\* Mutant: the difference the wrong way round, in signed arithmetic.
DiffReversed == sinceRead - sinceTouch

\* now - *x: now was read sinceRead ago, *x is last_ping_ts as it is now.
Diff == (sinceTouch - sinceRead) % U64

\* Mutant: expired one tick early.
CompareInclusive ==
  /\ Up /\ timer = "reading"
  /\ timer' = IF Diff >= IdleLimit THEN "describing" ELSE "waiting"
  /\ sinceRead' = 0
  /\ UNCHANGED <<sinceTouch, due, host, setsLeft, clients, idle>>

\* The rest of is_ping_expired, under the lock (context.rs:41-45).
Compare ==
  /\ Up /\ timer = "reading"
  /\ timer' = IF Diff > IdleLimit THEN "describing" ELSE "waiting"
  /\ sinceRead' = 0
  /\ UNCHANGED <<sinceTouch, due, host, setsLeft, clients, idle>>

\* destroy_cvm, first call.  An error status or an error in the response is
\* printed and the loop goes on; a failure to send panics in tx_call_api and
\* ends the task.
DescribeOk == timer = "describing" /\ timer' = "terminating"
CallRefused == timer \in {"describing", "terminating"} /\ timer' = "waiting"
CallPanics == timer \in {"describing", "terminating"} /\ timer' = "dead"

Describe ==
  /\ Up
  /\ DescribeOk \/ CallRefused \/ CallPanics
  /\ UNCHANGED <<sinceTouch, sinceRead, due, host, setsLeft, clients, idle>>

\* Second call: the instance is terminated, and the answer arrives or is lost.
Terminate ==
  /\ Up /\ timer = "terminating"
  /\ host' = "terminating"
  /\ timer' \in {"waiting", "dead"}
  /\ UNCHANGED <<sinceTouch, sinceRead, due, setsLeft, clients, idle>>

\* The cloud takes the instance away some time after it accepted the call.
Vanish ==
  /\ host = "terminating"
  /\ host' = "gone"
  /\ UNCHANGED <<sinceTouch, sinceRead, due, timer, setsLeft, clients, idle>>

\* A tick of time, on the wall clock and in truth.
Elapse ==
  /\ Up
  /\ timer = "reading" => sinceRead < LockDelay
  /\ sinceTouch' = AtMost(sinceTouch + 1)
  /\ sinceRead' = IF timer = "reading" THEN sinceRead + 1 ELSE 0
  /\ due' = Max({due - 1, -Period})
  /\ idle' = AtMost(idle + 1)
  /\ UNCHANGED <<timer, host, setsLeft, clients>>

\* The wall clock is set (time synchronisation): SystemTime is not monotonic.
SetClock(k) ==
  /\ Up /\ setsLeft > 0
  /\ setsLeft' = setsLeft - 1
  /\ sinceTouch' = AtMost(sinceTouch + k)
  /\ sinceRead' = IF timer = "reading" THEN sinceRead + k ELSE 0
  /\ UNCHANGED <<due, timer, host, clients, idle>>

Timer == StartCheck \/ Compare \/ Describe \/ Terminate
World == ClientsLeave \/ Vanish \/ Elapse \/ \E k \in Steps : SetClock(k)

Next == Ping \/ Timer \/ World
Spec == Init /\ [][Next]_vars

\* The runtime keeps polling the timer task and serving requests, time goes on
\* and the cloud does what it accepted.  A call that is made over and over is
\* not refused over and over; that it never fails to be sent is not assumed.
Fairness ==
  /\ WF_vars(StartCheck) /\ WF_vars(Compare) /\ WF_vars(Describe \/ Terminate)
  /\ WF_vars(Elapse) /\ WF_vars(Vanish)
  /\ SF_vars(Describe /\ DescribeOk) /\ SF_vars(Terminate)

FairSpec == Spec /\ Fairness

-----------------------------------------------------------------------------
TypeOK ==
  /\ sinceTouch \in -Skew .. Cap
  /\ sinceRead \in -Skew .. LockDelay + Skew
  /\ due \in -Period .. Period
  /\ timer \in {"waiting", "reading", "describing", "terminating", "dead"}
  /\ host \in {"running", "terminating", "gone"}
  /\ setsLeft \in 0 .. MaxSets
  /\ clients \in {"active", "left"}
  /\ idle \in 0 .. Cap

\* How far the wall clock can be off, and how old the last accepted ping was in
\* truth when is_ping_expired read the clock; negative: it came after that.
Drift == MaxStep * (MaxSets - setsLeft)
Age == idle - sinceRead

\* "10分钟过期" (context.rs:38), and what the unsigned difference makes of it.  A host is
\* kept only when a ping came within IdleLimit before the clock was read.  It is given
\* up when there was none for longer, but also, since the difference wraps, when the
\* last ping lies after the reading: because it came between the reading and the
\* comparison (Age < 0, and then always), or because the wall clock was set back and
\* the ping is younger than that (Age < Drift).  All of it to within what the clock was set
\* by, exactly so if it was never set.
CheckIsExact ==
  [][timer = "reading" /\ timer' # "reading" =>
       IF timer' = "describing"
       THEN Age > IdleLimit - Drift \/ Age < Drift
       ELSE Age \in -Drift .. IdleLimit + Drift]_vars

\* Once nobody uses the host any more it disappears, or the timer task has
\* panicked: refused calls, a clock that was set and missed ticks only delay it.
IdleHostGoneOrTimerDead ==
  clients = "left" ~> (host = "gone" \/ timer = "dead")

\* README.md:9, without exception: a host that nobody uses is destroyed.
IdleHostGone == clients = "left" ~> host = "gone"
=============================================================================
