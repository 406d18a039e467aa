---------------------------- MODULE InstanceStore ----------------------------
(***************************************************************************)
(* The host shown by the desktop and mobile window: the global instance of *)
(* src/store/instance.ts with every handler that writes it (the proxy      *)
(* view's mount, the reload, create and destroy buttons) and the timers    *)
(* and awaits between.  JavaScript runs one task at a time, so a step is   *)
(* the code from one await to the next; what makes it hard is that several *)
(* such chains are in flight at once and share the instance and one timer. *)
(*                                                                         *)
(* A chain waits for one call.  The other side first answers it (Answer,   *)
(* what the cloud or the backend does at that moment), then the chain goes *)
(* on with that answer (Resume), by which time anything may have changed.  *)
(* The cloud is external: a host boots, serves, is terminated by request,  *)
(* by itself when idle, or because a spot host is taken back.              *)
(***************************************************************************)
EXTENDS Naturals, FiniteSets

CONSTANTS
    Hosts,      \* the hosts the account may ever buy
    NoHost,     \* `undefined`, for an instance, an address or an id
    Chains,     \* bound: the async calls in flight at once
    Modes,      \* the windows considered, among "desktop", "mobile", "reopen"
    Autos       \* the values of `auto` considered

ASSUME HostsAssumption == NoHost \notin Hosts /\ Chains # {}
ASSUME ModesAssumption ==
    Modes \subseteq {"desktop", "mobile", "reopen"} /\ Autos \subseteq BOOLEAN

VARIABLES
    mode,       \* IS_MOBILE, IS_REOPEN or neither
    auto,       \* globalSettings.autoProxy, and the window was not reloaded
    cloud,      \* the phase of each host in the cloud
    data, ip, state, loading,   \* globalInst; a host stands for its address
    timer,      \* tm: what the pending timeout will do
    shown,      \* the proxy view shows its controls, not the first spinner
    creating,   \* the create button of the current view is busy
    chain,      \* the chains of async calls
    proxy       \* the host the local proxy client of the backend forwards to

inst == <<data, ip, state, loading, timer>>
view == <<shown, creating>>
vars == <<mode, auto, cloud, inst, view, chain, proxy>>

MaybeHost == Hosts \cup {NoHost}
Steps     == {"idle", "describe", "ping", "interval", "proxy", "deps", "run",
              "terminate", "stop", "notice"}
Answers   == {"none", "up", "down", "empty", "ok", "no", "error", "throw"}

(* What a chain waits for, about which host, the answer when it is there,  *)
(* and who awaits the whole chain: the view's mount, its create button or  *)
(* nobody that still matters.                                              *)
Call(at, host, then) == [at |-> at, host |-> host, got |-> "none", then |-> then]
Idle == Call("idle", NoHost, "stop")

Timeout(does, host) == [does |-> does, host |-> host]
NoTimeout == Timeout("nothing", NoHost)

Free == {c \in Chains : chain[c] = Idle}
Put(c, call) == chain' = [chain EXCEPT ![c] = call]

-----------------------------------------------------------------------------
(* How a chain ends: with an exception nothing catches, or by returning to *)
(* the one that awaits it.                                                 *)
Throw(c) == Put(c, Idle) /\ UNCHANGED view

(* The mount continues in index.tsx: controls appear, and an account with  *)
(* no host gets one on its own once the notice has closed.                 *)
Return(c) ==
    CASE chain[c].then = "stop" ->
            Put(c, Idle) /\ UNCHANGED view
      [] chain[c].then = "create" ->
            Put(c, Idle) /\ creating' = FALSE /\ UNCHANGED shown
      [] chain[c].then = "mount" ->
            /\ shown' = TRUE
            /\ UNCHANGED creating
            /\ IF auto /\ mode # "reopen" /\ state' = 0 /\ data' = NoHost
               THEN Put(c, Call("notice", NoHost, "stop"))
               ELSE Put(c, Idle)

(* loadGlobalInst up to its await. *)
Load(c, id, then) == loading' = TRUE /\ Put(c, Call("describe", id, then))

(* updateConnect up to its await: the state changes before the instance is *)
(* dereferenced, which throws when there is none.                          *)
UpdateConnect(c, then) ==
    /\ state' = 2
    /\ IF data' = NoHost THEN Throw(c)
                         ELSE Put(c, Call("ping", ip', then)) /\ UNCHANGED view

(* Mutant: a host without an address is not asked for again. *)
AskedOnce(c, host, up) ==
    /\ data' = host
    /\ ip' = IF up THEN host ELSE NoHost
    /\ UNCHANGED timer
    /\ IF up THEN UpdateConnect(c, chain[c].then)
             ELSE state' = (IF host = NoHost THEN 0 ELSE 1) /\ Return(c)

(* updateInst: no host, a host without an address, which is asked for      *)
(* again later, or one to connect to.                                      *)
UpdateInst(c, host, up) ==
    /\ data' = host
    /\ ip' = IF up THEN host ELSE NoHost
    /\ \/ /\ host = NoHost
          /\ state' = 0
          /\ UNCHANGED timer
          /\ Return(c)
       \/ /\ host # NoHost /\ ~up
          /\ state' = 1
          /\ timer' = Timeout("reload", host)
          /\ Return(c)
       \/ /\ host # NoHost /\ up
          /\ UNCHANGED timer
          /\ UpdateConnect(c, chain[c].then)

(* createGlobalInst up to its first await. *)
Create(c, then) ==
    IF data = NoHost THEN Put(c, Call("deps", NoHost, then)) /\ UNCHANGED view
                     ELSE Return(c)

-----------------------------------------------------------------------------
(* What the user and the timers start. *)

Reload == \E c \in Free :
    /\ shown /\ ~loading
    /\ Load(c, data, "stop")
    /\ UNCHANGED <<mode, auto, cloud, data, ip, state, timer, view, proxy>>

PressCreate == \E c \in Free :
    /\ shown /\ data = NoHost /\ ~creating
    /\ creating' = TRUE
    /\ Put(c, Call("deps", NoHost, "create"))
    /\ UNCHANGED <<mode, auto, cloud, inst, shown, proxy>>

(* The notice has closed and the view's Control creates a host. *)
AutoCreate(c) ==
    /\ chain[c].at = "notice"
    /\ IF data = NoHost
       THEN creating' = TRUE /\ Put(c, Call("deps", NoHost, "create"))
       ELSE creating' = FALSE /\ Put(c, Idle)
    /\ UNCHANGED <<mode, auto, cloud, inst, shown, proxy>>

Destroy == \E c \in Free :
    /\ shown /\ data # NoHost
    /\ Put(c, Call("terminate", data, "stop"))
    /\ UNCHANGED <<mode, auto, cloud, inst, view, proxy>>

(* Another page is opened and this one is opened again: a new view, and    *)
(* the chains the old one awaited have nobody left to tell.                *)
Orphaned == [c \in Chains |->
                IF chain[c].at = "notice" THEN Idle
                                          ELSE [chain[c] EXCEPT !.then = "stop"]]
Remount ==
    /\ creating' = FALSE
    /\ shown' = (state # 0)
    /\ IF state # 0
       THEN chain' = Orphaned /\ UNCHANGED loading
       ELSE \E c \in Free :
                /\ chain' = [Orphaned EXCEPT ![c] = Call("describe", NoHost, "mount")]
                /\ loading' = TRUE
    /\ UNCHANGED <<mode, auto, cloud, data, ip, state, timer, proxy>>

(* The timeout set by updateInst, and the one set by updateConnect. *)
FireReload == \E c \in Free :
    /\ timer.does = "reload"
    /\ timer' = NoTimeout
    /\ Load(c, timer.host, "stop")
    /\ UNCHANGED <<mode, auto, cloud, data, ip, state, view, proxy>>

FireConnect == \E c \in Free :
    /\ timer.does = "connect"
    /\ timer' = NoTimeout
    /\ UNCHANGED <<data, ip, loading>>
    /\ UpdateConnect(c, "stop")
    /\ UNCHANGED <<mode, auto, cloud, proxy>>

-----------------------------------------------------------------------------
(* The other side of a call: the cloud's API, the server, the backend. *)

Asked(c, at) == chain[c].at = at /\ chain[c].got = "none"
Got(c, got)  == Put(c, [chain[c] EXCEPT !.got = got])
Live == {h \in Hosts : cloud[h] \in {"booting", "running", "serving"}}

(* DescribeInstances by id or, without one, by the name all hosts share. *)
Describe(c) ==
    /\ Asked(c, "describe")
    /\ LET listed == {h \in Hosts : /\ chain[c].host \in {h, NoHost}
                                    /\ cloud[h] \notin {"unbought", "gone"}}
       IN \/ listed = {} /\ Got(c, "empty")
          \/ \E h \in listed :
                Put(c, [chain[c] EXCEPT
                          !.host = h,
                          !.got  = IF cloud[h] \in {"running", "serving"}
                                   THEN "up" ELSE "down"])
    /\ UNCHANGED <<mode, auto, cloud, inst, view, proxy>>

(* An error of the API, or an exception (network, status) it passes on. *)
ApiFails(c) ==
    /\ chain[c].at \in {"describe", "deps", "run", "terminate"}
    /\ chain[c].got = "none"
    /\ \E bad \in {"error", "throw"} : Got(c, bad)
    /\ UNCHANGED <<mode, auto, cloud, inst, view, proxy>>

DepsReady(c) ==
    /\ Asked(c, "deps")
    /\ Got(c, "ok")
    /\ UNCHANGED <<mode, auto, cloud, inst, view, proxy>>

RunInstances(c) ==
    /\ Asked(c, "run")
    /\ \E h \in Hosts :
          /\ cloud[h] = "unbought"
          /\ cloud' = [cloud EXCEPT ![h] = "booting"]
          /\ Put(c, [chain[c] EXCEPT !.host = h, !.got = "ok"])
    /\ UNCHANGED <<mode, auto, inst, view, proxy>>

TerminateInstances(c) ==
    /\ Asked(c, "terminate")
    /\ chain[c].host \in Live
    /\ cloud' = [cloud EXCEPT ![chain[c].host] = "leaving"]
    /\ Got(c, "ok")
    /\ UNCHANGED <<mode, auto, inst, view, proxy>>

Pong(c) ==
    /\ Asked(c, "ping")
    /\ chain[c].host \in Hosts
    /\ cloud[chain[c].host] = "serving"
    /\ Got(c, "ok")
    /\ UNCHANGED <<mode, auto, cloud, inst, view, proxy>>

NoPong(c) ==
    /\ Asked(c, "ping")
    /\ Got(c, "no")
    /\ UNCHANGED <<mode, auto, cloud, inst, view, proxy>>

(* tauri_interval_ping_start rejects a call without an address. *)
IntervalStarted(c) ==
    /\ Asked(c, "interval")
    /\ Got(c, IF chain[c].host = NoHost THEN "throw" ELSE "ok")
    /\ UNCHANGED <<mode, auto, cloud, inst, view, proxy>>

(* tauri_start_proxy_client: the client runs, or startProxyClient returns  *)
(* false.                                                                  *)
ProxyStarted(c) ==
    /\ Asked(c, "proxy")
    /\ \/ chain[c].host # NoHost /\ proxy' = chain[c].host /\ Got(c, "ok")
       \/ UNCHANGED proxy /\ Got(c, "no")
    /\ UNCHANGED <<mode, auto, cloud, inst, view>>

(* tauri_stop_proxy_client or tauri_android_stop_vpn, awaited by nobody. *)
ProxyStopped(c) ==
    /\ Asked(c, "stop")
    /\ proxy' = NoHost
    /\ Put(c, Idle)
    /\ UNCHANGED <<mode, auto, cloud, inst, view>>

(* A host on its way up, taken away, and at last no longer listed. *)
Boot(h) ==
    /\ \/ cloud[h] = "booting" /\ cloud' = [cloud EXCEPT ![h] = "running"]
       \/ cloud[h] = "running" /\ cloud' = [cloud EXCEPT ![h] = "serving"]
    /\ UNCHANGED <<mode, auto, inst, view, chain, proxy>>

Leave(h) ==
    /\ \/ h \in Live /\ cloud' = [cloud EXCEPT ![h] = "leaving"]
       \/ cloud[h] = "leaving" /\ cloud' = [cloud EXCEPT ![h] = "gone"]
    /\ UNCHANGED <<mode, auto, inst, view, chain, proxy>>

-----------------------------------------------------------------------------
(* What a chain does with its answer. *)

(* An exception leaves everything as it stood at the await. *)
ResumeThrow(c) ==
    /\ chain[c].got = "throw"
    /\ Throw(c)
    /\ UNCHANGED <<mode, auto, cloud, inst, proxy>>

Resumed(c, at) == chain[c].at = at /\ chain[c].got \notin {"none", "throw"}

ResumeLoad(c) ==
    /\ Resumed(c, "describe")
    /\ loading' = FALSE
    /\ UpdateInst(c, IF chain[c].got \in {"up", "down"} THEN chain[c].host ELSE NoHost,
                  chain[c].got = "up")
    /\ UNCHANGED <<mode, auto, cloud, proxy>>

(* Mutant: a ping without an answer is not repeated. *)
PingedOnce(c) ==
    /\ Resumed(c, "ping")
    /\ chain[c].got = "no"
    /\ UNCHANGED inst
    /\ Return(c)
    /\ UNCHANGED <<mode, auto, cloud, proxy>>

ResumePing(c) ==
    /\ Resumed(c, "ping")
    /\ UNCHANGED <<data, ip, loading>>
    /\ \/ /\ chain[c].got = "no"
          /\ timer' = Timeout("connect", NoHost)
          /\ UNCHANGED state
          /\ Return(c)
       \/ /\ chain[c].got = "ok"
          /\ UNCHANGED timer
          /\ state' = IF mode = "reopen" THEN 4 ELSE 3
          /\ \/ mode # "desktop" /\ Return(c)
             \/ mode = "desktop" /\ data = NoHost /\ Throw(c)
             \/ /\ mode = "desktop" /\ data # NoHost
                /\ Put(c, Call("interval", ip, chain[c].then))
                /\ UNCHANGED view
    /\ UNCHANGED <<mode, auto, cloud, proxy>>

(* enableProxy up to its await. *)
ResumeInterval(c) ==
    /\ Resumed(c, "interval")
    /\ UNCHANGED view
    /\ Put(c, IF data = NoHost THEN Idle ELSE Call("proxy", ip, chain[c].then))
    /\ UNCHANGED <<mode, auto, cloud, inst, proxy>>

(* Mutant: the state is counted up, not set. *)
CountedUp(c) ==
    /\ Resumed(c, "proxy")
    /\ state' = state + 2
    /\ UNCHANGED <<data, ip, loading, timer>>
    /\ Return(c)
    /\ UNCHANGED <<mode, auto, cloud, proxy>>

ResumeProxy(c) ==
    /\ Resumed(c, "proxy")
    /\ state' = IF chain[c].got = "ok" THEN 4 ELSE state
    /\ UNCHANGED <<data, ip, loading, timer>>
    /\ Return(c)
    /\ UNCHANGED <<mode, auto, cloud, proxy>>

ResumeDeps(c) ==
    /\ Resumed(c, "deps")
    /\ UNCHANGED inst
    /\ \/ chain[c].got = "error" /\ Return(c)
       \/ /\ chain[c].got = "ok"
          /\ Put(c, Call("run", NoHost, chain[c].then))
          /\ UNCHANGED view
    /\ UNCHANGED <<mode, auto, cloud, proxy>>

ResumeRun(c) ==
    /\ Resumed(c, "run")
    /\ UNCHANGED <<data, ip, state, timer>>
    /\ \/ chain[c].got = "error" /\ UNCHANGED loading /\ Return(c)
       \/ /\ chain[c].got = "ok"
          /\ Load(c, chain[c].host, chain[c].then)
          /\ UNCHANGED view
    /\ UNCHANGED <<mode, auto, cloud, proxy>>

(* Mutant: the address outlives the instance. *)
AddressKept(c) ==
    /\ Resumed(c, "terminate")
    /\ data' = NoHost /\ state' = 0
    /\ UNCHANGED <<ip, loading, timer, view>>
    /\ Put(c, Call("stop", NoHost, "stop"))
    /\ UNCHANGED <<mode, auto, cloud, proxy>>

ResumeTerminate(c) ==
    /\ Resumed(c, "terminate")
    /\ UNCHANGED <<loading, timer, view>>
    /\ \/ /\ chain[c].got = "error"
          /\ UNCHANGED <<data, ip, state>>
          /\ Put(c, Idle)
       \/ /\ chain[c].got = "ok"
          /\ data' = NoHost /\ state' = 0 /\ ip' = NoHost
          /\ Put(c, Call("stop", NoHost, "stop"))
    /\ UNCHANGED <<mode, auto, cloud, proxy>>

-----------------------------------------------------------------------------
(* A new window: nothing is known yet, and the mount loads by name.  Only  *)
(* a window opened again finds a backend that may run the proxy client.    *)
Init ==
    /\ mode \in Modes
    /\ auto \in Autos
    /\ cloud \in {[h \in Hosts |-> "unbought"]}
           \cup {[h \in Hosts |-> IF h = old THEN at ELSE "unbought"] :
                    old \in Hosts, at \in {"booting", "serving"}}
    /\ data = NoHost /\ ip = NoHost /\ state = 0 /\ loading = TRUE
    /\ timer = NoTimeout
    /\ shown = FALSE /\ creating = FALSE
    /\ \E c \in Chains :
          chain = [d \in Chains |->
                     IF d = c THEN Call("describe", NoHost, "mount") ELSE Idle]
    /\ proxy \in IF mode = "reopen"
                 THEN {h \in Hosts : cloud[h] = "serving"} \cup {NoHost}
                 ELSE {NoHost}

Answer(c) ==
    \/ Describe(c) \/ ApiFails(c) \/ DepsReady(c) \/ RunInstances(c)
    \/ TerminateInstances(c) \/ Pong(c) \/ NoPong(c) \/ IntervalStarted(c)
    \/ ProxyStarted(c) \/ ProxyStopped(c)

Resume(c) ==
    \/ ResumeThrow(c) \/ ResumeLoad(c) \/ ResumePing(c) \/ ResumeInterval(c)
    \/ ResumeProxy(c) \/ ResumeDeps(c) \/ ResumeRun(c) \/ ResumeTerminate(c)
    \/ AutoCreate(c)

User  == Reload \/ PressCreate \/ Destroy \/ Remount
Fire  == FireReload \/ FireConnect
Cloud == \E h \in Hosts : Boot(h) \/ Leave(h)

Next == User \/ Fire \/ Cloud \/ \E c \in Chains : Answer(c) \/ Resume(c)

Spec == Init /\ [][Next]_vars

(* Calls return, timers fire (with at most Chains calls in flight a timer  *)
(* may have to wait its turn, hence the strong form), hosts boot, and a    *)
(* server asked again and again is reached at last.                        *)
FairSpec ==
    /\ Spec
    /\ SF_vars(Fire)
    /\ \A h \in Hosts : WF_vars(Boot(h))
    /\ \A c \in Chains :
          WF_vars(Answer(c)) /\ WF_vars(Resume(c)) /\ SF_vars(Pong(c))

-----------------------------------------------------------------------------
TypeOK ==
    /\ mode \in Modes /\ auto \in Autos
    /\ cloud \in [Hosts -> {"unbought", "booting", "running", "serving",
                            "leaving", "gone"}]
    /\ data \in MaybeHost /\ ip \in MaybeHost /\ state \in 0 .. 4
    /\ loading \in BOOLEAN
    /\ timer \in [does : {"nothing", "reload", "connect"}, host : MaybeHost]
    /\ shown \in BOOLEAN /\ creating \in BOOLEAN
    /\ chain \in [Chains -> [at : Steps, host : MaybeHost, got : Answers,
                             then : {"stop", "mount", "create"}]]
    /\ proxy \in MaybeHost

(* However loads, pings and a destroy overlap, the address is the one of   *)
(* the instance held, so a ping or a proxy client started from both never  *)
(* pairs the address of one host with the password of another.             *)
AddressMatches == ip # NoHost => ip = data

(* A host that is not yet connected is never left alone: a ping or a       *)
(* timeout is pending, or the reload button shows the spinner of a load.   *)
KeepsTrying ==
    (data # NoHost /\ state \in {1, 2}) =>
        \/ timer.does # "nothing"
        \/ loading
        \/ \E c \in Chains : chain[c].at = "ping"

(* What no timer mends: the answer of a load from before the host had an   *)
(* address comes last and clears it, the ping under way then fails, and    *)
(* its timeout replaces the reload that was to ask again.  From then on    *)
(* http://undefined is pinged, until the user presses reload.              *)
PingsNowhere ==
    /\ data # NoHost /\ ip = NoHost
    /\ timer.does = "connect" \/ \E c \in Chains : chain[c].at = "ping"

(* A host that is shown and stays in the cloud becomes connected, at its   *)
(* own address, whatever the reloads and pings that overlap, unless a load *)
(* has failed with its spinner left turning or, after a stale answer, the  *)
(* window pings without an address for good.                               *)
Connects ==
    \/ <>[]loading
    \/ <>[]PingsNowhere
    \/ \A h \in Hosts :
          data = h ~> \/ state \in {3, 4} /\ ip = h
                      \/ data # h \/ h \notin Live
=============================================================================
