-------------------------- MODULE VpnService_proofs --------------------------
(***************************************************************************)
(* The safety of the VPN's life cycle, for any number of interfaces,       *)
(* presses and waiting messages.                                           *)
(***************************************************************************)
EXTENDS VpnService, TLAPS

\* No interface without the permission: what establish relies on when it returns
\* null and the reference to an older interface is overwritten.
GrantNeeded == tun # None => granted

\* An unregistered run that no command has crossed is alone, and TUN_QUIT free.
AloneAndFree == ~crossed => \A r, s \in Spawned : quit = None /\ r = s

\* ConnectedHasRun, and that a run which failed has left its token behind.
Settled ==
  (connected /\ ~crossed) =>
     /\ iface \in Runs
     /\ \/ run[iface] \in {"spawned", "running"} /\ iface \notin cancelled
        \/ run[iface] = "failed" /\ quit = iface

Messages == {"start", "bare", "stop", "destroy"}

-----------------------------------------------------------------------------
LEMMA AllIdle ==
  ASSUME NEW f, f = [c \in Calls |-> "idle"]
  PROVE  f \in [Calls -> {"idle", "start", "stop"}]
  BY SMT

LEMMA AllUnused ==
  ASSUME NEW f, f = [r \in Runs |-> "unused"]
  PROVE  /\ f \in [Runs -> {"unused", "spawned", "running", "refused", "failed", "ended"}]
         /\ \A r \in Runs : f[r] = "unused"
  BY SMT

LEMMA Waiting ==
  ASSUME NEW q, q = <<>> \/ q = <<"bare">>
  PROVE  q \in Seq(Messages)
<1>1. <<>> \in Seq(Messages)
  BY SMT
<1>2. "bare" \in Messages
  BY DEF Messages
<1>3. <<"bare">> \in Seq(Messages)
  BY <1>2, SMT
<1> QED
  BY <1>1, <1>3

LEMMA InitTypeOK == Init => TypeOK
<1> SUFFICES ASSUME Init PROVE TypeOK
  OBVIOUS
<1>1. call \in [Calls -> {"idle", "start", "stop"}]
  BY AllIdle DEF Init
<1>2. run \in [Runs -> {"unused", "spawned", "running", "refused", "failed", "ended"}]
  BY AllUnused DEF Init
<1>3. queue \in Seq(Messages)
  BY Waiting DEF Init
<1>4. shown \in BOOLEAN /\ stale \subseteq Calls /\ granted \in BOOLEAN /\ dialog \in BOOLEAN
  BY DEF Init
<1>5. record \in {"none", "started", "stopped"} /\ connected \in BOOLEAN /\ crossed \in BOOLEAN
  BY DEF Init
<1>6. /\ iface \in Runs \cup {None} /\ tun \in Runs \cup {None}
      /\ quit \in Runs \cup {None} /\ cancelled \subseteq Runs
  BY DEF Init
<1> QED
  BY <1>1, <1>2, <1>3, <1>4, <1>5, <1>6 DEF TypeOK, Messages

-----------------------------------------------------------------------------
LEMMA QueueGrows ==
  ASSUME NEW q \in Seq(Messages), NEW m \in Messages
  PROVE  Append(q, m) \in Seq(Messages)
  BY SMT

LEMMA QueueShrinks ==
  ASSUME NEW q \in Seq(Messages), q # <<>>
  PROVE  Tail(q) \in Seq(Messages)
  BY SMT

LEMMA StartServiceType ==
  ASSUME TypeOK, NEW m \in Messages, StartService(m)
  PROVE  queue' \in Seq(Messages) /\ record' \in {"none", "started", "stopped"}
  BY QueueGrows DEF StartService, TypeOK, Messages

LEMMA HandleType ==
  ASSUME TypeOK, NEW m, Handle(m)
  PROVE  queue' \in Seq(Messages)
  BY QueueShrinks DEF Handle, TypeOK, Messages

LEMMA StopSelfType ==
  ASSUME TypeOK, StopSelf
  PROVE  record' \in {"none", "started", "stopped"}
  BY DEF StopSelf, TypeOK

LEMMA StopProxyLoopType ==
  ASSUME TypeOK, StopProxyLoop
  PROVE  /\ connected' \in BOOLEAN /\ cancelled' \subseteq Runs
         /\ quit' \in Runs \cup {None} /\ tun' \in Runs \cup {None}
         /\ run' \in [Runs -> {"unused", "spawned", "running", "refused", "failed", "ended"}]
         /\ crossed' \in BOOLEAN
  BY DEF StopProxyLoop, TypeOK

LEMMA AnsweredType ==
  ASSUME TypeOK, NEW c \in Calls, Answered(c)
  PROVE  /\ call' \in [Calls -> {"idle", "start", "stop"}]
         /\ stale' \subseteq Calls /\ shown' \in BOOLEAN
  BY DEF Answered, TypeOK

\* Every step keeps every variable in its type.
LEMMA TypeStep == TypeOK /\ [Next]_vars => TypeOK'
<1> SUFFICES ASSUME TypeOK, [Next]_vars PROVE TypeOK'
  OBVIOUS
<1> USE DEF Messages
<1>1. CASE UNCHANGED vars
  BY <1>1 DEF vars, switch, system, service, native, TypeOK
<1>2. ASSUME NEW c \in Calls, Press(c) PROVE TypeOK'
  BY <1>2 DEF Press, TypeOK, system, service, native
<1>3. ASSUME NEW c \in Calls, StartVpn(c) PROVE TypeOK'
  <2>1. queue' \in Seq(Messages) /\ record' \in {"none", "started", "stopped"}
    BY <1>3, StartServiceType DEF StartVpn, TypeOK
  <2>2. granted' \in BOOLEAN /\ dialog' \in BOOLEAN
    BY <1>3 DEF StartVpn, TypeOK
  <2> QED
    BY <1>3, <2>1, <2>2, AnsweredType DEF StartVpn, Answered, TypeOK, service, native
<1>4. ASSUME NEW c \in Calls, StopVpn(c) PROVE TypeOK'
  <2>1. queue' \in Seq(Messages) /\ record' \in {"none", "started", "stopped"}
    BY <1>4, StartServiceType DEF StopVpn
  <2> QED
    BY <1>4, <2>1, AnsweredType DEF StopVpn, Answered, TypeOK, service, native
<1>5. ASSUME NEW c \in Calls, PluginFails(c) PROVE TypeOK'
  BY <1>5, AnsweredType DEF PluginFails, Answered, TypeOK, system, service, native
<1>6. CASE Remount
  BY <1>6 DEF Remount, TypeOK, system, service, native
<1>7. CASE StopElsewhere
  <2>1. queue' \in Seq(Messages) /\ record' \in {"none", "started", "stopped"}
    BY <1>7, StartServiceType DEF StopElsewhere
  <2> QED
    BY <1>7, <2>1 DEF StopElsewhere, TypeOK, switch, service, native
<1>8. CASE Allow
  <2>1. queue' \in Seq(Messages) /\ record' \in {"none", "started", "stopped"}
    BY <1>8, StartServiceType DEF Allow
  <2> QED
    BY <1>8, <2>1 DEF Allow, TypeOK, switch, service, native
<1>9. CASE Deny
  BY <1>9 DEF Deny, TypeOK, switch, service, native
<1>10. CASE HandleStart
  <2>1. queue' \in Seq(Messages)
    BY <1>10, HandleType DEF HandleStart
  <2>2. crossed' \in BOOLEAN /\ granted' \in BOOLEAN /\ dialog' \in BOOLEAN
    BY <1>10 DEF HandleStart, TypeOK
  <2>3. record' \in {"none", "started", "stopped"} /\ connected' \in BOOLEAN
    BY <1>10, StopSelfType DEF HandleStart, TypeOK
  <2>4. iface' \in Runs \cup {None} /\ tun' \in Runs \cup {None}
    BY <1>10 DEF HandleStart, TypeOK
  <2>5. run' \in [Runs -> {"unused", "spawned", "running", "refused", "failed", "ended"}]
    BY <1>10 DEF HandleStart, TypeOK, native
  <2>6. quit' \in Runs \cup {None} /\ cancelled' \subseteq Runs
    BY <1>10 DEF HandleStart, TypeOK, native
  <2> QED
    BY <1>10, <2>1, <2>2, <2>3, <2>4, <2>5, <2>6 DEF HandleStart, TypeOK, switch
<1>11. CASE HandleBare
  BY <1>11, HandleType DEF HandleBare, TypeOK, switch, system, service, native
<1>12. CASE HandleStop
  BY <1>12, HandleType, StopSelfType, StopProxyLoopType DEF HandleStop, TypeOK, switch
<1>13. CASE HandleDestroy
  BY <1>13, HandleType, StopProxyLoopType DEF HandleDestroy, TypeOK, switch, system
<1>14. ASSUME NEW r \in Runs, Register(r) PROVE TypeOK'
  BY <1>14 DEF Register, TypeOK, switch, system, service
<1>15. ASSUME NEW r \in Runs, RunCancelled(r) PROVE TypeOK'
  BY <1>15 DEF RunCancelled, Return, TypeOK, switch, system
<1>16. ASSUME NEW r \in Runs, RunFails(r) PROVE TypeOK'
  BY <1>16 DEF RunFails, Return, TypeOK, switch, system
<1>17. CASE Destroy
  BY <1>17, QueueGrows DEF Destroy, TypeOK, switch, service, native
<1>18. CASE Revoke
  BY <1>18, StopSelfType DEF Revoke, TypeOK, switch, native
<1>19. CASE Kill
  <2>1. call' \in [Calls -> {"idle", "start", "stop"}]
    BY <1>19, AllIdle DEF Kill
  <2>2. run' \in [Runs -> {"unused", "spawned", "running", "refused", "failed", "ended"}]
    BY <1>19, AllUnused DEF Kill
  <2>3. queue' \in Seq(Messages)
    BY <1>19, Waiting DEF Kill
  <2>4. shown' \in BOOLEAN /\ stale' \subseteq Calls /\ granted' \in BOOLEAN /\ dialog' \in BOOLEAN
    BY <1>19 DEF Kill, TypeOK
  <2>5. record' \in {"none", "started", "stopped"} /\ connected' \in BOOLEAN /\ crossed' \in BOOLEAN
    BY <1>19 DEF Kill
  <2>6. /\ iface' \in Runs \cup {None} /\ tun' \in Runs \cup {None}
        /\ quit' \in Runs \cup {None} /\ cancelled' \subseteq Runs
    BY <1>19 DEF Kill
  <2> QED
    BY <2>1, <2>2, <2>3, <2>4, <2>5, <2>6 DEF TypeOK
<1> QED
  BY <1>1, <1>2, <1>3, <1>4, <1>5, <1>6, <1>7, <1>8, <1>9, <1>10, <1>11, <1>12,
     <1>13, <1>14, <1>15, <1>16, <1>17, <1>18, <1>19
  DEF Next, User, Main, Native, Android
-----------------------------------------------------------------------------
(* The four parts beside the types, action by action.  What the switch, the *)
(* dialog and the bare messages do leaves all of them as they are.          *)

Coherent == StopReaches /\ TrafficGivenBack /\ GrantNeeded /\ AloneAndFree /\ Settled

LEMMA UntouchedStep ==
  ASSUME Coherent, UNCHANGED <<service, native, crossed>>, granted => granted'
  PROVE  Coherent'
  BY DEF Coherent, StopReaches, TrafficGivenBack, GrantNeeded, AloneAndFree, Settled,
         Spawned, service, native

\* A stop reaches every run that goes on, and leaves nothing that captures traffic.
LEMMA StopStep ==
  ASSUME TypeOK, Coherent, StopProxyLoop, UNCHANGED granted
  PROVE  Coherent'
<1>1. StopReaches'
  BY DEF Coherent, StopReaches, StopProxyLoop
<1>2. tun' = None
  BY DEF Coherent, TrafficGivenBack, StopProxyLoop
<1>3. AloneAndFree'
  BY DEF StopProxyLoop, AloneAndFree, Spawned
<1>4. Settled'
  BY DEF StopProxyLoop, Settled
<1> QED
  BY <1>1, <1>2, <1>3, <1>4 DEF Coherent, TrafficGivenBack, GrantNeeded

LEMMA StartStep ==
  ASSUME TypeOK, Coherent, HandleStart
  PROVE  Coherent'
<1>1. CASE ~granted
  <2>1. UNCHANGED <<connected, tun, run, quit, cancelled, granted>> /\ iface' = None
    BY <1>1 DEF HandleStart, native
  <2>2. crossed' = (crossed \/ quit # None \/ Spawned # {})
    BY DEF HandleStart
  <2>3. StopReaches' /\ GrantNeeded'
    BY <2>1 DEF Coherent, StopReaches, GrantNeeded
  <2>4. TrafficGivenBack'
    BY <1>1, <2>1 DEF Coherent, GrantNeeded, TrafficGivenBack
  <2>5. AloneAndFree'
    BY <2>1, <2>2 DEF Coherent, AloneAndFree, Spawned
  <2>6. ASSUME connected, ~crossed' PROVE FALSE
    <3>1. ~crossed /\ quit = None /\ \A r \in Runs : run[r] # "spawned"
      BY <2>2, <2>6 DEF Spawned
    <3>2. iface \in Runs /\ run[iface] = "running" /\ iface \notin cancelled
      BY <2>6, <3>1, NoneAssumption DEF Coherent, Settled
    <3> QED
      BY <3>1, <3>2, NoneAssumption DEF Coherent, StopReaches
  <2>7. Settled'
    BY <2>1, <2>6 DEF Settled
  <2> QED
    BY <2>3, <2>4, <2>5, <2>7 DEF Coherent
<1>2. CASE granted
  <2>1. PICK r \in Runs :
          /\ run[r] \notin {"spawned", "running"} /\ r \notin {quit, iface, tun}
          /\ run' = [run EXCEPT ![r] = "spawned"]
          /\ cancelled' = cancelled \ {r}
          /\ iface' = r /\ tun' = r
    BY <1>2 DEF HandleStart
  <2>2. /\ connected' = TRUE /\ quit' = quit /\ granted' = granted
        /\ crossed' = (crossed \/ quit # None \/ Spawned # {})
    BY <1>2 DEF HandleStart
  <2>3. /\ run'[r] = "spawned"
        /\ \A s \in Runs : s # r => run'[s] = run[s] /\ (s \in cancelled' <=> s \in cancelled)
    BY <2>1 DEF TypeOK
  <2>4. StopReaches'
    BY <2>2, <2>3 DEF Coherent, StopReaches
  <2>5. TrafficGivenBack' /\ GrantNeeded'
    BY <1>2, <2>1, <2>2 DEF TrafficGivenBack, GrantNeeded
  <2>6. AloneAndFree'
    BY <2>2, <2>3 DEF AloneAndFree, Spawned
  <2>7. Settled'
    BY <2>1, <2>3 DEF Settled
  <2> QED
    BY <2>4, <2>5, <2>6, <2>7 DEF Coherent
<1> QED
  BY <1>1, <1>2 DEF TypeOK

\* A run registers only where no live token is, and is then the only one.
LEMMA RegisterStep ==
  ASSUME TypeOK, Coherent, NEW r \in Runs, Register(r)
  PROVE  Coherent'
<1>1. UNCHANGED <<connected, iface, tun, cancelled, crossed, granted>>
  BY DEF Register, service, system
<1>2. \A s \in Runs : s # r => run'[s] = run[s]
  BY DEF Register, TypeOK
<1>3. CASE quit = None
  <2>1. quit' = r /\ run'[r] = "running"
    BY <1>3 DEF Register, TypeOK
  <2>2. StopReaches'
    BY <1>1, <1>2, <1>3, <2>1, NoneAssumption DEF Coherent, StopReaches
  <2>3. AloneAndFree'
    <3>1. ~crossed => \A s \in Runs : run'[s] # "spawned"
      BY <1>2, <2>1 DEF Coherent, AloneAndFree, Spawned, Register
    <3> QED
      BY <1>1, <3>1 DEF AloneAndFree, Spawned
  <2>4. Settled'
    BY <1>1, <1>2, <1>3, <2>1, NoneAssumption DEF Coherent, Settled
  <2> QED
    BY <1>1, <2>2, <2>3, <2>4 DEF Coherent, TrafficGivenBack, GrantNeeded
<1>4. CASE quit # None
  <2>1. quit' = quit /\ run'[r] = "refused" /\ crossed
    BY <1>4 DEF Register, TypeOK, Coherent, AloneAndFree, Spawned
  <2>2. StopReaches'
    BY <1>1, <1>2, <2>1 DEF Coherent, StopReaches
  <2> QED
    BY <1>1, <2>1, <2>2 DEF Coherent, TrafficGivenBack, GrantNeeded, AloneAndFree, Settled
<1> QED
  BY <1>3, <1>4

\* A run that returns leaves TUN_QUIT as it was.
LEMMA ReturnStep ==
  ASSUME TypeOK, Coherent, NEW r \in Runs, run[r] = "running", NEW how, Return(r, how),
         \/ how = "ended" /\ r \in cancelled /\ cancelled' = cancelled
         \/ how = "failed" /\ cancelled' = cancelled \cup {r}
  PROVE  Coherent'
<1>1. UNCHANGED <<connected, iface, quit, crossed, granted>>
  BY DEF Return, system
<1>2. run'[r] = how /\ \A s \in Runs : s # r => run'[s] = run[s]
  BY DEF Return, TypeOK
<1>3. StopReaches'
  BY <1>1, <1>2 DEF Coherent, StopReaches
<1>4. TrafficGivenBack' /\ GrantNeeded'
  BY <1>1 DEF Return, Coherent, TrafficGivenBack, GrantNeeded
<1>5. AloneAndFree'
  BY <1>1, <1>2 DEF Coherent, AloneAndFree, Spawned
<1>6. Settled'
  <2>1. CASE iface = r
    BY <1>1, <1>2, <2>1 DEF Coherent, Settled, StopReaches
  <2>2. CASE iface # r
    BY <1>1, <1>2, <2>2 DEF Coherent, Settled
  <2> QED
    BY <2>1, <2>2
<1> QED
  BY <1>3, <1>4, <1>5, <1>6 DEF Coherent

LEMMA RevokeStep ==
  ASSUME Coherent, Revoke
  PROVE  Coherent'
  BY DEF Coherent, Revoke, StopReaches, TrafficGivenBack, GrantNeeded, AloneAndFree, Settled,
         Spawned, native

LEMMA KillStep ==
  ASSUME Kill
  PROVE  Coherent'
<1>1. \A r \in Runs : run'[r] = "unused"
  BY AllUnused DEF Kill
<1>2. tun' = None /\ connected' = FALSE
  BY DEF Kill
<1> QED
  BY <1>1, <1>2 DEF Coherent, StopReaches, TrafficGivenBack, GrantNeeded, AloneAndFree,
                    Settled, Spawned

LEMMA CoherentStep == TypeOK /\ Coherent /\ [Next]_vars => Coherent'
<1> SUFFICES ASSUME TypeOK, Coherent, [Next]_vars PROVE Coherent'
  OBVIOUS
<1>1. CASE UNCHANGED vars
  BY <1>1, UntouchedStep DEF vars, system
<1>2. ASSUME NEW c \in Calls, Press(c) PROVE Coherent'
  BY <1>2, UntouchedStep DEF Press, system
<1>3. ASSUME NEW c \in Calls, StartVpn(c) PROVE Coherent'
  <2>1. UNCHANGED <<service, native, crossed>> /\ granted' = granted
    BY <1>3 DEF StartVpn, Answered
  <2> QED
    BY <2>1, UntouchedStep
<1>4. ASSUME NEW c \in Calls, StopVpn(c) PROVE Coherent'
  BY <1>4, UntouchedStep DEF StopVpn, Answered
<1>5. ASSUME NEW c \in Calls, PluginFails(c) PROVE Coherent'
  BY <1>5, UntouchedStep DEF PluginFails, Answered, system
<1>6. CASE Remount
  BY <1>6, UntouchedStep DEF Remount, system
<1>7. CASE StopElsewhere
  BY <1>7, UntouchedStep DEF StopElsewhere
<1>8. CASE Allow
  BY <1>8, UntouchedStep DEF Allow
<1>9. CASE Deny
  BY <1>9, UntouchedStep DEF Deny
<1>10. CASE HandleStart
  BY <1>10, StartStep
<1>11. CASE HandleBare
  BY <1>11, UntouchedStep DEF HandleBare, system
<1>12. CASE HandleStop
  BY <1>12, StopStep DEF HandleStop
<1>13. CASE HandleDestroy
  BY <1>13, StopStep DEF HandleDestroy, system
<1>14. ASSUME NEW r \in Runs, Register(r) PROVE Coherent'
  BY <1>14, RegisterStep
<1>15. ASSUME NEW r \in Runs, RunCancelled(r) PROVE Coherent'
  <2>1. run[r] = "running" /\ r \in cancelled /\ cancelled' = cancelled /\ Return(r, "ended")
    BY <1>15 DEF RunCancelled
  <2> QED
    BY <2>1, ReturnStep
<1>16. ASSUME NEW r \in Runs, RunFails(r) PROVE Coherent'
  <2>1. run[r] = "running" /\ cancelled' = cancelled \cup {r} /\ Return(r, "failed")
    BY <1>16 DEF RunFails
  <2> QED
    BY <2>1, ReturnStep
<1>17. CASE Destroy
  BY <1>17, UntouchedStep DEF Destroy
<1>18. CASE Revoke
  BY <1>18, RevokeStep
<1>19. CASE Kill
  BY <1>19, KillStep
<1> QED
  BY <1>1, <1>2, <1>3, <1>4, <1>5, <1>6, <1>7, <1>8, <1>9, <1>10, <1>11, <1>12,
     <1>13, <1>14, <1>15, <1>16, <1>17, <1>18, <1>19
  DEF Next, User, Main, Native, Android
-----------------------------------------------------------------------------
LEMMA InductiveInv == Spec => [](TypeOK /\ Coherent)
<1>1. Init => TypeOK
  BY InitTypeOK
<1>2. Init => Coherent
  <2> SUFFICES ASSUME Init PROVE Coherent
    OBVIOUS
  <2>1. \A r \in Runs : run[r] = "unused"
    BY AllUnused DEF Init
  <2>2. tun = None /\ connected = FALSE
    BY DEF Init
  <2> QED
    BY <2>1, <2>2 DEF Coherent, StopReaches, TrafficGivenBack, GrantNeeded, AloneAndFree,
                      Settled, Spawned
<1> QED
  BY <1>1, <1>2, TypeStep, CoherentStep, PTL DEF Spec

\* Type correctness, for any number of interfaces, presses and messages.
THEOREM VpnServiceTypes == Spec => []TypeOK
  BY InductiveInv, PTL

\* A stop always reaches the run that goes on, and there is at most one: TUN_QUIT of
\* src-vpn/src/android.rs is enough although a run that returns does not clear it.
THEOREM StopAlwaysReaches == Spec => []StopReaches
<1>1. Coherent => StopReaches
  BY DEF Coherent
<1> QED
  BY <1>1, InductiveInv, PTL

\* Off means that the phone's traffic goes its own way again, however starts, stops,
\* the destruction of the service and the loss of the permission are interleaved.
THEOREM TrafficAlwaysGivenBack == Spec => []TrafficGivenBack
<1>1. Coherent => TrafficGivenBack
  BY DEF Coherent
<1> QED
  BY <1>1, InductiveInv, PTL

\* Unless a start came across an unsettled one, isVpnConnected is backed by a run of
\* the present interface that was neither refused nor stopped.
THEOREM ConnectedAlwaysHasRun == Spec => []ConnectedHasRun
<1>1. Coherent => ConnectedHasRun
  BY DEF Coherent, Settled, ConnectedHasRun
<1> QED
  BY <1>1, InductiveInv, PTL
=============================================================================
