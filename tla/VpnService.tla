----------------------------- MODULE VpnService -----------------------------
(***************************************************************************)
(* The life of the VPN on Android: the switch of the mobile window         *)
(* (src/views/proxy/Control.tsx), the plugin it calls, the service         *)
(* CloudTunVpnService with its onStartCommand and onDestroy on the main    *)
(* thread, and the threads it spawns, each inside one call of the native   *)
(* run (src-vpn/src/android.rs), which a static token TUN_QUIT can end.    *)
(*                                                                         *)
(* Nothing waits for anything here: the plugin answers before the service  *)
(* has heard of the command, the service says it is connected before its   *)
(* thread has run, and run tells nobody when it returns.                   *)
(*                                                                         *)
(* Android is external: it keeps a record of the service, delivers its     *)
(* messages in order to the main thread, destroys it when it was stopped   *)
(* and no interface binds it, may take the permission or kill the process. *)
(* An interface, its descriptor and the run it was made for are the same   *)
(* value, used again when nothing refers to it any more.                   *)
(***************************************************************************)
EXTENDS Naturals, Sequences

CONSTANTS
  Runs,       \* bound: the runs that something still refers to
  None,
  Calls,      \* bound: the presses of the switch that wait for the plugin
  MaxQueue    \* bound: commands are sent only while fewer messages wait

ASSUME NoneAssumption == None \notin Runs
ASSUME QueueAssumption == MaxQueue \in Nat

VARIABLES
  shown,      \* state.vpnConnected of the switch
  call,       \* what each press of the switch has asked for
  stale,      \* presses of a view that is gone
  granted,    \* VpnService.prepare returns null
  dialog,     \* the permission dialog is open
  record,     \* what Android knows of the service
  queue,      \* messages to the main thread
  connected,  \* isVpnConnected
  iface,      \* vpnInterface, which nothing sets back when it is closed
  tun,        \* the interface that carries the phone's traffic
  run,        \* how far the thread of each interface is
  quit,       \* TUN_QUIT
  cancelled,  \* the runs whose token was cancelled
  crossed     \* a command came while an earlier start was not settled

switch  == <<shown, call, stale>>
system  == <<granted, dialog, record>>
service == <<connected, iface, tun>>
native  == <<run, quit, cancelled>>
vars == <<switch, system, queue, service, native, crossed>>

Init ==
  /\ shown = FALSE /\ call = [c \in Calls |-> "idle"] /\ stale = {}
  /\ granted \in BOOLEAN /\ dialog = FALSE
  /\ record = "none" /\ queue = <<>>
  /\ connected = FALSE /\ iface = None /\ tun = None
  /\ run = [r \in Runs |-> "unused"] /\ quit = None /\ cancelled = {}
  /\ crossed = FALSE

Spawned == {r \in Runs : run[r] = "spawned"}

-----------------------------------------------------------------------------
(* The switch, and what its call does in the plugin. *)

\* startService: the record is there again, and the main thread gets the intent.
StartService(message) ==
  /\ Len(queue) < MaxQueue
  /\ queue' = Append(queue, message)
  /\ record' = "started"

\* toggleVpn up to its await.  The button is not disabled meanwhile.
Press(c) ==
  /\ call[c] = "idle"
  /\ call' = [call EXCEPT ![c] = IF shown THEN "stop" ELSE "start"]
  /\ UNCHANGED <<shown, stale, system, queue, service, native, crossed>>

\* The rest of toggleVpn: the switch is turned over whatever the answer was.
Answered(c) ==
  /\ call' = [call EXCEPT ![c] = "idle"]
  /\ stale' = stale \ {c}
  /\ shown' = IF c \in stale THEN shown ELSE ~shown
  /\ UNCHANGED <<service, native, crossed>>

\* startVpn: the service is started, or the user asked first.
StartVpn(c) ==
  /\ call[c] = "start"
  /\ \/ granted /\ StartService("start") /\ UNCHANGED <<granted, dialog>>
     \/ ~granted /\ dialog' = TRUE /\ UNCHANGED <<granted, record, queue>>
  /\ Answered(c)

StopVpn(c) ==
  /\ call[c] = "stop"
  /\ StartService("stop") /\ UNCHANGED <<granted, dialog>>
  /\ Answered(c)

\* The plugin throws: the command logs it and answers false.
PluginFails(c) ==
  /\ call[c] # "idle"
  /\ UNCHANGED <<system, queue>>
  /\ Answered(c)

\* Mutant: the plugin answers with the descriptor, and the switch keeps it.
RemountDescriptor ==
  /\ shown' \in {FALSE, iface}
  /\ stale' = {c \in Calls : call[c] # "idle"}
  /\ UNCHANGED <<call, system, queue, service, native, crossed>>

\* The view is opened again: the new switch gets what the plugin answers, or
\* nothing when it is drawn before the answer.
Remount ==
  /\ shown' \in {FALSE, connected}
  /\ stale' = {c \in Calls : call[c] # "idle"}
  /\ UNCHANGED <<call, system, queue, service, native, crossed>>

\* The button of the notification, or the view after the host is destroyed.
StopElsewhere ==
  /\ StartService("stop")
  /\ UNCHANGED <<switch, granted, dialog, service, native, crossed>>

\* onActivityResult: an answer without data starts the service without extras.
Allow ==
  /\ dialog
  /\ dialog' = FALSE /\ granted' = TRUE
  /\ \E message \in {"start", "bare"} : StartService(message)
  /\ UNCHANGED <<switch, service, native, crossed>>

Deny ==
  /\ dialog
  /\ dialog' = FALSE
  /\ UNCHANGED <<switch, granted, record, queue, service, native, crossed>>

-----------------------------------------------------------------------------
(* The main thread. *)

Handle(message) == queue # <<>> /\ Head(queue) = message /\ queue' = Tail(queue)

\* An instance whose destruction is under way has no record left to stop.
StopSelf ==
  LET leaving == \E i \in DOMAIN queue : queue[i] = "destroy"
  IN record' = IF record = "started" /\ ~leaving THEN "stopped" ELSE record

\* Mutant: the native run is told to stop and the interface left open.
StopNative ==
  /\ connected' = FALSE
  /\ cancelled' = IF quit = None THEN cancelled ELSE cancelled \cup {quit}
  /\ quit' = None
  /\ UNCHANGED <<tun, run>>
  /\ crossed' = (Spawned # {})

\* Mutant: isVpnConnected is not reset.
StopSilently ==
  /\ cancelled' = IF quit = None THEN cancelled ELSE cancelled \cup {quit}
  /\ quit' = None
  /\ tun' = IF tun = iface THEN None ELSE tun
  /\ UNCHANGED <<connected, run>>
  /\ crossed' = (Spawned # {})

\* Mutant: the service says it is off and stops nothing.
StopOnlySays ==
  /\ connected' = FALSE
  /\ crossed' = (Spawned # {})
  /\ UNCHANGED <<tun, native>>

\* stopProxyLoop: stop takes the token and cancels it, close gives the traffic back.
StopProxyLoop ==
  /\ connected' = FALSE
  /\ cancelled' = IF quit = None THEN cancelled ELSE cancelled \cup {quit}
  /\ quit' = None
  /\ tun' = IF tun = iface THEN None ELSE tun
  /\ UNCHANGED run
  /\ crossed' = (Spawned # {})

\* onStartCommand with the address of a host.  establish takes the traffic away
\* from an interface it finds, and makes none without the permission.
HandleStart ==
  /\ Handle("start")
  /\ crossed' = (crossed \/ quit # None \/ Spawned # {})
  /\ \/ /\ granted
        /\ \E r \in Runs :
              /\ run[r] \notin {"spawned", "running"} /\ r \notin {quit, iface, tun}
              /\ run' = [run EXCEPT ![r] = "spawned"]
              /\ cancelled' = cancelled \ {r}
              /\ iface' = r /\ tun' = r
        /\ connected' = TRUE
        /\ UNCHANGED <<record, quit>>
     \/ /\ ~granted
        /\ iface' = None
        /\ StopSelf
        /\ UNCHANGED <<connected, tun, native>>
  /\ UNCHANGED <<switch, granted, dialog>>

\* onStartCommand without it (a sticky restart, the dialog): only a notification.
HandleBare ==
  /\ Handle("bare")
  /\ UNCHANGED <<switch, system, service, native, crossed>>

HandleStop ==
  /\ Handle("stop")
  /\ StopProxyLoop
  /\ StopSelf
  /\ UNCHANGED <<switch, granted, dialog, iface>>

\* onDestroy; the next instance has no interface yet.
HandleDestroy ==
  /\ Handle("destroy")
  /\ StopProxyLoop
  /\ iface' = None
  /\ UNCHANGED <<switch, system>>

Main == HandleStart \/ HandleBare \/ HandleStop \/ HandleDestroy

-----------------------------------------------------------------------------
(* The native run. *)

\* Mutant: the token of the run before is replaced.
RegisterReplaces(r) ==
  /\ run[r] = "spawned"
  /\ quit' = r /\ run' = [run EXCEPT ![r] = "running"]
  /\ UNCHANGED <<switch, system, queue, service, cancelled, crossed>>

\* Mutant: a run that was told to stop but has not returned yet is in the way.
RegisterAlone(r) ==
  /\ run[r] = "spawned"
  /\ IF quit = None /\ \A other \in Runs : run[other] # "running"
     THEN quit' = r /\ run' = [run EXCEPT ![r] = "running"]
     ELSE UNCHANGED quit /\ run' = [run EXCEPT ![r] = "refused"]
  /\ UNCHANGED <<switch, system, queue, service, cancelled, crossed>>

\* The first thing run does: put its token down, or return -1 when one is there.
Register(r) ==
  /\ run[r] = "spawned"
  /\ IF quit = None
     THEN quit' = r /\ run' = [run EXCEPT ![r] = "running"]
     ELSE UNCHANGED quit /\ run' = [run EXCEPT ![r] = "refused"]
  /\ UNCHANGED <<switch, system, queue, service, cancelled, crossed>>

\* run returns, and the device it drops closes the descriptor by its number: that
\* of a newer interface, perhaps, when the service has closed it before.
Return(r, how) ==
  /\ run' = [run EXCEPT ![r] = how]
  /\ \/ tun' = None
     \/ tun # r /\ UNCHANGED tun
  /\ UNCHANGED <<switch, system, queue, connected, iface, quit, crossed>>

\* The token ends the loop of start_run_vpn, or the ping that runs beside it.
RunCancelled(r) ==
  /\ run[r] = "running" /\ r \in cancelled
  /\ UNCHANGED cancelled
  /\ Return(r, "ended")

\* The device cannot be made or read; the token is cancelled and stays where it is.
RunFails(r) ==
  /\ run[r] = "running"
  /\ cancelled' = cancelled \cup {r}
  /\ Return(r, "failed")

-----------------------------------------------------------------------------
(* Android. *)

\* A service that was stopped is destroyed once no interface binds it.
Destroy ==
  /\ record = "stopped" /\ tun = None
  /\ record' = "none"
  /\ queue' = Append(queue, "destroy")
  /\ UNCHANGED <<switch, granted, dialog, service, native, crossed>>

\* Another application takes the VPN; onRevoke, which is inherited, stops the service.
Revoke ==
  /\ granted
  /\ granted' = FALSE
  /\ tun' = None
  /\ IF tun # None THEN StopSelf ELSE UNCHANGED record
  /\ UNCHANGED <<switch, dialog, queue, connected, iface, native, crossed>>

\* The process is killed: what is static is gone too, and a service that was not
\* stopped is started again (START_STICKY) without an intent.
Kill ==
  /\ shown' = FALSE /\ call' = [c \in Calls |-> "idle"] /\ stale' = {}
  /\ dialog' = FALSE
  /\ record' = IF record = "started" THEN "started" ELSE "none"
  /\ queue' = IF record = "started" THEN <<"bare">> ELSE <<>>
  /\ connected' = FALSE /\ iface' = None /\ tun' = None
  /\ run' = [r \in Runs |-> "unused"] /\ quit' = None /\ cancelled' = {}
  /\ crossed' = FALSE
  /\ UNCHANGED granted

-----------------------------------------------------------------------------
User ==
  \/ Remount \/ StopElsewhere \/ Allow \/ Deny
  \/ \E c \in Calls : Press(c) \/ StartVpn(c) \/ StopVpn(c) \/ PluginFails(c)
Native(r) == Register(r) \/ RunCancelled(r) \/ RunFails(r)
Android == Destroy \/ Revoke \/ Kill

Next == User \/ Main \/ Android \/ \E r \in Runs : Native(r)

\* The main thread takes its messages, threads run, and a run whose interface is
\* gone cannot read from it for ever.
Fairness ==
  /\ WF_vars(Main)
  /\ \A r \in Runs :
        /\ WF_vars(Register(r))
        /\ WF_vars(RunCancelled(r))
        /\ WF_vars(tun # r /\ RunFails(r))

Spec == Init /\ [][Next]_vars /\ Fairness

-----------------------------------------------------------------------------
TypeOK ==
  /\ shown \in BOOLEAN /\ stale \subseteq Calls
  /\ call \in [Calls -> {"idle", "start", "stop"}]
  /\ granted \in BOOLEAN /\ dialog \in BOOLEAN
  /\ record \in {"none", "started", "stopped"}
  /\ queue \in Seq({"start", "bare", "stop", "destroy"})
  /\ connected \in BOOLEAN
  /\ iface \in Runs \cup {None} /\ tun \in Runs \cup {None}
  /\ run \in [Runs -> {"unused", "spawned", "running", "refused", "failed", "ended"}]
  /\ quit \in Runs \cup {None} /\ cancelled \subseteq Runs
  /\ crossed \in BOOLEAN

\* A run that goes on uncancelled has its token in TUN_QUIT, so that stop reaches
\* it; there is never a second one beside it.
StopReaches ==
  \A r \in Runs : run[r] = "running" /\ r \notin cancelled => quit = r

\* The traffic of the phone goes into the interface only while the service says
\* it is connected and holds the descriptor that the next stop will close.
TrafficGivenBack == tun # None => connected /\ iface = tun

\* Unless a start came while an earlier one was unsettled, "connected" means a
\* run for the present interface: under way, or failed by itself.  One stop that
\* finds every thread registered settles it all.
ConnectedHasRun ==
  (connected /\ ~crossed) =>
     /\ iface \in Runs
     /\ \/ run[iface] = "failed"
        \/ run[iface] \in {"spawned", "running"} /\ iface \notin cancelled

\* Such a connection is served in the end: the run goes on, on the interface
\* that has the traffic.
ConnectedServes ==
  <>[](connected /\ ~crossed /\ \A r \in Runs : iface = r => run[r] # "failed")
     => <>[](\E r \in Runs : iface = r /\ run[r] = "running" /\ tun = r)

\* When the VPN stays off, no run goes on, not even one that came too late to be
\* told to stop.
StopStops == <>[]~connected => <>[](\A r \in Runs : run[r] # "running")
=============================================================================
