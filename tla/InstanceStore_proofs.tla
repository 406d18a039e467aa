------------------------ MODULE InstanceStore_proofs ------------------------
(***************************************************************************)
(* Safety of the window's instance, for any number of hosts and of calls   *)
(* in flight: the address shown is that of the instance shown, and a host  *)
(* that is not connected is always being tried.  The second is not         *)
(* inductive on its own: a ping must be known to end in an answer and not  *)
(* in an exception (PingCaught), for an exception reschedules nothing.     *)
(***************************************************************************)
EXTENDS InstanceStore, TLAPS

USE HostsAssumption, ModesAssumption

(* pingServerOnce catches every exception of its request. *)
PingCaught ==
    \A c \in Chains : chain[c].at = "ping" => chain[c].got \in {"none", "ok", "no"}

Inv == TypeOK /\ AddressMatches /\ KeepsTrying /\ PingCaught

Calls == [at : Steps, host : MaybeHost, got : Answers, then : {"stop", "mount", "create"}]

LEMMA InitInv == Init => Inv
<1> SUFFICES ASSUME Init PROVE Inv
  OBVIOUS
<1>1. cloud \in [Hosts -> {"unbought", "booting", "running", "serving", "leaving", "gone"}]
  BY DEF Init
<1>2. chain \in [Chains -> Calls] /\ PingCaught
  BY DEF Init, Call, Idle, Calls, PingCaught, MaybeHost, Steps, Answers
<1>3. proxy \in MaybeHost
  BY DEF Init, MaybeHost
<1>4. timer \in [does : {"nothing", "reload", "connect"}, host : MaybeHost]
  BY DEF Init, NoTimeout, Timeout, MaybeHost
<1>5. /\ mode \in Modes /\ auto \in Autos /\ data = NoHost /\ ip = NoHost /\ state = 0
      /\ loading = TRUE /\ shown = FALSE /\ creating = FALSE
  BY DEF Init
<1>6. TypeOK
  <2>1. data \in MaybeHost /\ ip \in MaybeHost
    BY <1>5 DEF MaybeHost
  <2>2. state \in 0 .. 4
    BY <1>5
  <2>3. loading \in BOOLEAN /\ shown \in BOOLEAN /\ creating \in BOOLEAN
    BY <1>5, Zenon
  <2>4. mode \in Modes /\ auto \in Autos
    BY <1>5
  <2>5. chain \in [Chains -> [at : Steps, host : MaybeHost, got : Answers,
                             then : {"stop", "mount", "create"}]]
    BY <1>2 DEF Calls
  <2> HIDE DEF MaybeHost
  <2> QED
    BY <1>1, <1>3, <1>4, <2>1, <2>2, <2>3, <2>4, <2>5 DEF TypeOK
<1> QED
  BY <1>2, <1>5, <1>6 DEF Inv, AddressMatches, KeepsTrying

(* A chain goes on to another call, or ends. *)
LEMMA PutCall ==
    ASSUME Inv, NEW c \in Chains, NEW call \in Calls, Put(c, call),
           call.at = "ping" => call.got \in {"none", "ok", "no"}
    PROVE  /\ chain' \in [Chains -> Calls]
           /\ PingCaught'
           /\ chain'[c] = call
           /\ \A d \in Chains \ {c} : chain'[d] = chain[d]
BY DEF Put, Inv, TypeOK, PingCaught, Calls

LEMMA CallType ==
    \A at \in Steps, h \in MaybeHost, then \in {"stop", "mount", "create"} :
        Call(at, h, then) \in Calls
BY DEF Call, Calls, Answers

(* What ending a chain does, with an exception or not. *)
LEMMA Ends ==
    ASSUME Inv, NEW c \in Chains, Throw(c) \/ Return(c)
    PROVE  /\ chain' \in [Chains -> Calls]
           /\ PingCaught'
           /\ \A d \in Chains \ {c} : chain'[d] = chain[d]
           /\ shown' \in BOOLEAN /\ creating' \in BOOLEAN
<1>1. Idle \in Calls /\ Call("notice", NoHost, "stop") \in Calls
      /\ Idle.at # "ping" /\ Call("notice", NoHost, "stop").at # "ping"
  BY CallType DEF Idle, Steps, MaybeHost, Call
<1>2. shown \in BOOLEAN /\ creating \in BOOLEAN
  BY DEF Inv, TypeOK
<1>3. chain[c].then \in {"stop", "mount", "create"}
  BY DEF Inv, TypeOK
<1>4. Put(c, Idle) \/ Put(c, Call("notice", NoHost, "stop"))
  BY <1>3 DEF Throw, Return
<1>5. shown' \in BOOLEAN /\ creating' \in BOOLEAN
  BY <1>2, <1>3 DEF Throw, Return, view
<1>6. CASE Put(c, Idle)
  BY <1>1, <1>5, <1>6, PutCall
<1>7. CASE Put(c, Call("notice", NoHost, "stop"))
  BY <1>1, <1>5, <1>7, PutCall
<1> QED
  BY <1>4, <1>6, <1>7

(* An answer changes neither what the window shows nor what a chain waits  *)
(* for.                                                                    *)
LEMMA AnswerKeepsInv ==
    ASSUME Inv, NEW c \in Chains, Answer(c)
    PROVE  Inv'
<1> USE DEF MaybeHost
<1>1. chain[c] \in Calls
  BY DEF Inv, TypeOK, Calls
<1>2. UNCHANGED <<mode, auto, inst, view>>
  BY DEF Answer, Describe, ApiFails, DepsReady, RunInstances, TerminateInstances,
         Pong, NoPong, IntervalStarted, ProxyStarted, ProxyStopped
<1>3. cloud' \in [Hosts -> {"unbought", "booting", "running", "serving", "leaving", "gone"}]
  BY DEF Inv, TypeOK, Answer, Describe, ApiFails, DepsReady, RunInstances,
         TerminateInstances, Pong, NoPong, IntervalStarted, ProxyStarted, ProxyStopped
<1>4. proxy' \in MaybeHost
  BY <1>1 DEF Inv, TypeOK, Answer, Describe, ApiFails, DepsReady, RunInstances,
         TerminateInstances, Pong, NoPong, IntervalStarted, ProxyStarted, ProxyStopped,
         Calls
<1>5. \E call \in Calls :
          /\ Put(c, call)
          /\ call.at = "ping" => call.got \in {"none", "ok", "no"}
          /\ (chain[c].at = "ping") => (call.at = "ping")
  <2>1. CASE Describe(c)
    <3>1. CASE Got(c, "empty")
      BY <1>1, <2>1, <3>1 DEF Describe, Asked, Got, Calls, Answers
    <3>2. ASSUME NEW h \in Hosts, NEW g \in {"up", "down"},
                 Put(c, [chain[c] EXCEPT !.host = h, !.got = g])
          PROVE  \E call \in Calls :
                    /\ Put(c, call)
                    /\ call.at = "ping" => call.got \in {"none", "ok", "no"}
                    /\ (chain[c].at = "ping") => (call.at = "ping")
      <4>1. [chain[c] EXCEPT !.host = h, !.got = g] \in Calls
        BY <1>1 DEF Calls, Answers
      <4>2. [chain[c] EXCEPT !.host = h, !.got = g].at = "describe"
        BY <1>1, <2>1 DEF Describe, Asked, Calls
      <4> QED
        BY <2>1, <3>2, <4>1, <4>2 DEF Describe, Asked
    <3> QED
      BY <2>1, <3>1, <3>2 DEF Describe
  <2>2. CASE ApiFails(c)
    BY <1>1, <2>2 DEF ApiFails, Got, Calls, Answers
  <2>3. CASE DepsReady(c)
    BY <1>1, <2>3 DEF DepsReady, Asked, Got, Calls, Answers
  <2>4. CASE RunInstances(c)
    <3>1. PICK h \in Hosts : Put(c, [chain[c] EXCEPT !.host = h, !.got = "ok"])
      BY <2>4 DEF RunInstances
    <3>2. [chain[c] EXCEPT !.host = h, !.got = "ok"] \in Calls
      BY <1>1 DEF Calls, Answers
    <3> QED
      BY <1>1, <2>4, <3>1, <3>2 DEF RunInstances, Asked, Calls
  <2>5. CASE TerminateInstances(c)
    BY <1>1, <2>5 DEF TerminateInstances, Asked, Got, Calls, Answers
  <2>6. CASE Pong(c)
    BY <1>1, <2>6 DEF Pong, Asked, Got, Calls, Answers
  <2>7. CASE NoPong(c)
    BY <1>1, <2>7 DEF NoPong, Asked, Got, Calls, Answers
  <2>8. CASE IntervalStarted(c)
    BY <1>1, <2>8 DEF IntervalStarted, Asked, Got, Calls, Answers
  <2>9. CASE ProxyStarted(c)
    BY <1>1, <2>9 DEF ProxyStarted, Asked, Got, Calls, Answers
  <2>10. CASE ProxyStopped(c)
    BY <1>1, <2>10, CallType DEF ProxyStopped, Asked, Idle, Call, Steps
  <2> QED
    BY <2>1, <2>2, <2>3, <2>4, <2>5, <2>6, <2>7, <2>8, <2>9, <2>10 DEF Answer
<1>6. PICK call \in Calls :
          /\ Put(c, call)
          /\ call.at = "ping" => call.got \in {"none", "ok", "no"}
          /\ (chain[c].at = "ping") => (call.at = "ping")
  BY <1>5
<1>7. /\ chain' \in [Chains -> Calls] /\ PingCaught' /\ chain'[c] = call
      /\ \A d \in Chains \ {c} : chain'[d] = chain[d]
  BY <1>6, PutCall
<1>8. \A d \in Chains : chain[d].at = "ping" => chain'[d].at = "ping"
  BY <1>6, <1>7
<1>9. TypeOK'
  BY <1>2, <1>3, <1>4, <1>7 DEF Inv, TypeOK, inst, view, Calls
<1>10. AddressMatches' /\ KeepsTrying'
  BY <1>2, <1>8 DEF Inv, AddressMatches, KeepsTrying, inst
<1> QED
  BY <1>7, <1>9, <1>10 DEF Inv

-----------------------------------------------------------------------------
(* What the user, the timers and the cloud do. *)

LEMMA LoadKeeps ==
    ASSUME Inv, NEW c \in Chains, NEW id \in MaybeHost,
           NEW then \in {"stop", "mount", "create"}, Load(c, id, then)
    PROVE  /\ chain' \in [Chains -> Calls]
           /\ PingCaught'
           /\ loading' = TRUE
<1>1. Call("describe", id, then) \in Calls
  BY CallType DEF Steps
<1> QED
  BY <1>1, PutCall DEF Load, Call

LEMMA UserKeepsInv == Inv /\ User => Inv'
<1> SUFFICES ASSUME Inv, User PROVE Inv'
  OBVIOUS
<1> USE DEF MaybeHost
<1>1. CASE Reload
  <2>1. PICK c \in Free : shown /\ ~loading /\ Load(c, data, "stop")
    BY <1>1 DEF Reload
  <2>2. chain' \in [Chains -> Calls] /\ PingCaught' /\ loading' = TRUE
    BY <2>1, LoadKeeps DEF Free, Inv, TypeOK
  <2>3. UNCHANGED <<mode, auto, cloud, data, ip, state, timer, view, proxy>>
    BY <1>1 DEF Reload
  <2> QED
    BY <2>2, <2>3 DEF Inv, TypeOK, AddressMatches, KeepsTrying, view, Calls
<1>2. CASE PressCreate
  <2>1. PICK c \in Free : Put(c, Call("deps", NoHost, "create"))
    BY <1>2 DEF PressCreate
  <2>2. Call("deps", NoHost, "create") \in Calls
    BY CallType DEF Steps
  <2>3. /\ chain' \in [Chains -> Calls] /\ PingCaught'
        /\ \A d \in Chains \ {c} : chain'[d] = chain[d]
    BY <2>1, <2>2, PutCall DEF Free, Call
  <2>4. /\ creating' = TRUE
        /\ UNCHANGED <<mode, auto, cloud, inst, shown, proxy>>
    BY <1>2 DEF PressCreate
  <2>5. chain[c].at # "ping"
    BY <2>1 DEF Free, Idle, Call
  <2> QED
    BY <2>3, <2>4, <2>5 DEF Inv, TypeOK, AddressMatches, KeepsTrying, inst, Calls
<1>3. CASE Destroy
  <2>1. PICK c \in Free : Put(c, Call("terminate", data, "stop"))
    BY <1>3 DEF Destroy
  <2>2. Call("terminate", data, "stop") \in Calls
    BY CallType DEF Steps, Inv, TypeOK
  <2>3. /\ chain' \in [Chains -> Calls] /\ PingCaught'
        /\ \A d \in Chains \ {c} : chain'[d] = chain[d]
    BY <2>1, <2>2, PutCall DEF Free, Call
  <2>4. UNCHANGED <<mode, auto, cloud, inst, view, proxy>>
    BY <1>3 DEF Destroy
  <2>5. chain[c].at # "ping"
    BY <2>1 DEF Free, Idle, Call
  <2> QED
    BY <2>3, <2>4, <2>5 DEF Inv, TypeOK, AddressMatches, KeepsTrying, inst, view, Calls
<1>4. CASE Remount
  <2>1. /\ Orphaned \in [Chains -> Calls]
        /\ \A d \in Chains :
              /\ (Orphaned[d].at = "ping") <=> (chain[d].at = "ping")
              /\ (Orphaned[d].at = "ping") => (Orphaned[d].got \in {"none", "ok", "no"})
    <3>1. Idle \in Calls
      BY CallType DEF Idle, Steps
    <3>2. \A d \in Chains : chain[d] \in Calls
      BY DEF Inv, TypeOK, Calls
    <3>3. ASSUME NEW d \in Chains
          PROVE  /\ Orphaned[d] \in Calls
                 /\ Orphaned[d].at = "ping" <=> chain[d].at = "ping"
                 /\ Orphaned[d].at = "ping" => Orphaned[d].got \in {"none", "ok", "no"}
      <4>1. CASE chain[d].at = "notice"
        BY <3>1, <4>1 DEF Orphaned, Idle, Call
      <4>2. CASE chain[d].at # "notice"
        BY <3>2, <4>2 DEF Orphaned, Inv, PingCaught, Calls
      <4> QED
        BY <4>1, <4>2
    <3>4. Orphaned \in [Chains -> Calls]
      <4>1. Orphaned = [d \in Chains |-> Orphaned[d]]
        BY Zenon DEF Orphaned
      <4> QED
        BY <3>3, <4>1
    <3> QED
      BY <3>3, <3>4, Zenon
  <2>2. CASE state # 0
    <3>1. /\ chain' = Orphaned
          /\ creating' = FALSE /\ shown' = TRUE
          /\ UNCHANGED <<mode, auto, cloud, inst, proxy>>
      BY <1>4, <2>2 DEF Remount, inst
    <3>2. PingCaught'
      BY <2>1, <3>1 DEF PingCaught
    <3>3. TypeOK'
      BY <2>1, <3>1 DEF Inv, TypeOK, inst, Calls
    <3>4. AddressMatches' /\ KeepsTrying'
      BY <2>1, <3>1 DEF Inv, AddressMatches, KeepsTrying, inst
    <3> QED
      BY <3>2, <3>3, <3>4 DEF Inv
  <2>3. CASE state = 0
    <3>1. PICK c \in Free :
             /\ chain' = [Orphaned EXCEPT ![c] = Call("describe", NoHost, "mount")]
             /\ loading' = TRUE
      BY <1>4, <2>3 DEF Remount
    <3>2. /\ Call("describe", NoHost, "mount") \in Calls
          /\ Call("describe", NoHost, "mount").at # "ping"
      BY CallType DEF Steps, Call
    <3>3. chain' \in [Chains -> Calls]
      BY <2>1, <3>1, <3>2
    <3>4. PingCaught'
      <4>1. c \in Chains /\ chain'[c] = Call("describe", NoHost, "mount")
        BY <2>1, <3>1 DEF Free
      <4>2. \A d \in Chains \ {c} : chain'[d] = Orphaned[d]
        BY <2>1, <3>1
      <4>3. ASSUME NEW d \in Chains, chain'[d].at = "ping"
            PROVE  chain'[d].got \in {"none", "ok", "no"}
        BY <2>1, <3>2, <4>1, <4>2, <4>3
      <4> QED
        BY <4>3 DEF PingCaught
    <3> QED
      BY <1>4, <2>3, <3>4, <3>1, <3>3 DEF Remount, Inv, TypeOK, AddressMatches, KeepsTrying, Calls
  <2> QED
    BY <2>2, <2>3
<1> QED
  BY <1>1, <1>2, <1>3, <1>4 DEF User

LEMMA CloudKeepsInv == Inv /\ Cloud => Inv'
<1> SUFFICES ASSUME Inv, NEW h \in Hosts, Boot(h) \/ Leave(h) PROVE Inv'
  BY DEF Cloud
<1>1. cloud' \in [Hosts -> {"unbought", "booting", "running", "serving", "leaving", "gone"}]
  BY DEF Inv, TypeOK, Boot, Leave
<1>2. UNCHANGED <<mode, auto, inst, view, chain, proxy>>
  BY DEF Boot, Leave
<1> QED
  BY <1>1, <1>2 DEF Inv, TypeOK, AddressMatches, KeepsTrying, PingCaught, inst, view

LEMMA FireKeepsInv == Inv /\ Fire => Inv'
<1> SUFFICES ASSUME Inv, Fire PROVE Inv'
  OBVIOUS
<1> USE DEF MaybeHost
<1>0. NoTimeout \in [does : {"nothing", "reload", "connect"}, host : MaybeHost]
  BY DEF NoTimeout, Timeout
<1>1. CASE FireReload
  <2>1. PICK c \in Free : Load(c, timer.host, "stop")
    BY <1>1 DEF FireReload
  <2>2. chain' \in [Chains -> Calls] /\ PingCaught' /\ loading' = TRUE
    BY <2>1, LoadKeeps DEF Free, Inv, TypeOK
  <2>3. /\ UNCHANGED <<mode, auto, cloud, data, ip, state, view, proxy>>
        /\ timer' = NoTimeout
    BY <1>1 DEF FireReload
  <2> QED
    BY <1>0, <2>2, <2>3 DEF Inv, TypeOK, AddressMatches, KeepsTrying, view, Calls
<1>2. CASE FireConnect
  <2>1. PICK c \in Free : UpdateConnect(c, "stop")
    BY <1>2 DEF FireConnect
  <2>2. /\ UNCHANGED <<mode, auto, cloud, data, ip, loading, proxy>>
        /\ timer' = NoTimeout /\ state' = 2
    BY <1>2 DEF FireConnect, UpdateConnect
  <2>3. CASE data' = NoHost
    BY <1>0, <2>1, <2>2, <2>3, Ends
       DEF UpdateConnect, Free, Inv, TypeOK, AddressMatches, KeepsTrying, Calls
  <2>4. CASE data' # NoHost
    <3>1. Put(c, Call("ping", ip', "stop")) /\ UNCHANGED view
      BY <2>1, <2>4 DEF UpdateConnect
    <3>2. Call("ping", ip', "stop") \in Calls
      BY <2>2, CallType DEF Inv, TypeOK, Steps
    <3>3. chain' \in [Chains -> Calls] /\ PingCaught' /\ chain'[c].at = "ping"
      BY <3>1, <3>2, PutCall DEF Free, Call
    <3> QED
      BY <1>0, <2>2, <3>1, <3>3
         DEF Inv, TypeOK, AddressMatches, KeepsTrying, Calls, view, Free
  <2> QED
    BY <2>3, <2>4
<1> QED
  BY <1>1, <1>2 DEF Fire

-----------------------------------------------------------------------------
(* What a chain does with its answer. *)

(* A chain that goes on to a call that is no ping, or ends, from a state   *)
(* in which it was no ping, and touches nothing the invariant relates.     *)
LEMMA ResumeQuietly ==
    ASSUME Inv, NEW c \in Chains, chain[c].at # "ping",
           chain' \in [Chains -> Calls], PingCaught',
           \A d \in Chains \ {c} : chain'[d] = chain[d],
           shown' \in BOOLEAN, creating' \in BOOLEAN,
           UNCHANGED <<mode, auto, cloud, data, ip, timer, proxy>>,
           loading' = loading \/ loading' = TRUE,
           state' = state \/ state' = 4
    PROVE  Inv'
<1>1. TypeOK'
  <2>1. loading' \in BOOLEAN
    BY DEF Inv, TypeOK
  <2>2. state' \in 0 .. 4
    BY DEF Inv, TypeOK
  <2> QED
    BY <2>1, <2>2 DEF Inv, TypeOK, Calls
<1>2. AddressMatches'
  BY DEF Inv, AddressMatches
<1>3. KeepsTrying'
  <2> SUFFICES ASSUME data' # NoHost, state' \in {1, 2}, timer'.does = "nothing", ~loading'
               PROVE  \E d \in Chains : chain'[d].at = "ping"
    BY DEF KeepsTrying
  <2>1. state' = state /\ ~loading
    BY DEF Inv, TypeOK
  <2>2. PICK d \in Chains : chain[d].at = "ping"
    BY <2>1 DEF Inv, KeepsTrying
  <2> QED
    BY <2>2
<1> QED
  BY <1>1, <1>2, <1>3 DEF Inv

LEMMA ResumeLoadKeepsInv ==
    ASSUME Inv, NEW c \in Chains, ResumeLoad(c)
    PROVE  Inv'
<1> DEFINE host == IF chain[c].got \in {"up", "down"} THEN chain[c].host ELSE NoHost
           up   == chain[c].got = "up"
<1>1. /\ UpdateInst(c, host, up)
      /\ loading' = FALSE
      /\ UNCHANGED <<mode, auto, cloud, proxy>>
  BY DEF ResumeLoad
<1>2. host \in MaybeHost
  BY DEF Inv, TypeOK, MaybeHost
<1>3. /\ data' = host
      /\ ip' = IF up THEN host ELSE NoHost
  BY <1>1 DEF UpdateInst
<1>4. AddressMatches' /\ data' \in MaybeHost /\ ip' \in MaybeHost
  BY <1>2, <1>3 DEF AddressMatches, MaybeHost
<1>5. chain[c].then \in {"stop", "mount", "create"}
  BY DEF Inv, TypeOK
<1> HIDE DEF host, up
<1>6. ASSUME chain' \in [Chains -> Calls], PingCaught', state' \in 0 .. 4,
             timer' \in [does : {"nothing", "reload", "connect"}, host : MaybeHost],
             shown' \in BOOLEAN, creating' \in BOOLEAN, KeepsTrying'
      PROVE  Inv'
  <2>1. loading' \in BOOLEAN
    BY <1>1
  <2>2. TypeOK'
    BY <1>1, <1>4, <1>6, <2>1 DEF Inv, TypeOK, Calls
  <2> QED
    BY <1>4, <1>6, <2>2 DEF Inv
<1>7. timer \in [does : {"nothing", "reload", "connect"}, host : MaybeHost]
      /\ shown \in BOOLEAN /\ creating \in BOOLEAN
  BY DEF Inv, TypeOK
<1>8. CASE host = NoHost /\ state' = 0 /\ UNCHANGED timer /\ Return(c)
  <2>1. KeepsTrying' /\ state' \in 0 .. 4
    BY <1>3, <1>8 DEF KeepsTrying
  <2> QED
    BY <1>6, <1>7, <1>8, <2>1, Ends
<1>9. CASE host # NoHost /\ ~up /\ state' = 1 /\ timer' = Timeout("reload", host) /\ Return(c)
  <2>1. timer' \in [does : {"nothing", "reload", "connect"}, host : MaybeHost]
        /\ timer'.does # "nothing"
    BY <1>2, <1>9 DEF Timeout
  <2>2. KeepsTrying' /\ state' \in 0 .. 4
    BY <1>9, <2>1 DEF KeepsTrying
  <2> QED
    BY <1>6, <1>9, <2>1, <2>2, Ends
<1>10. CASE host # NoHost /\ up /\ UNCHANGED timer /\ UpdateConnect(c, chain[c].then)
  <2>1. /\ Put(c, Call("ping", ip', chain[c].then)) /\ UNCHANGED view
        /\ state' = 2
    BY <1>3, <1>10 DEF UpdateConnect
  <2>2. Call("ping", ip', chain[c].then) \in Calls
    BY <1>4, <1>5, CallType DEF Steps
  <2>3. chain' \in [Chains -> Calls] /\ PingCaught' /\ chain'[c].at = "ping"
    BY <2>1, <2>2, PutCall DEF Call
  <2>4. KeepsTrying' /\ state' \in 0 .. 4
    BY <2>1, <2>3 DEF KeepsTrying
  <2>5. shown' \in BOOLEAN /\ creating' \in BOOLEAN
    BY <1>7, <2>1 DEF view
  <2> QED
    BY <1>6, <1>7, <1>10, <2>3, <2>4, <2>5
<1> QED
  BY <1>1, <1>8, <1>9, <1>10 DEF UpdateInst

LEMMA ResumePingKeepsInv ==
    ASSUME Inv, NEW c \in Chains, ResumePing(c)
    PROVE  Inv'
<1>1. /\ UNCHANGED <<mode, auto, cloud, data, ip, loading, proxy>>
  BY DEF ResumePing
<1>2. AddressMatches'
  BY <1>1 DEF Inv, AddressMatches
<1>3. chain[c].then \in {"stop", "mount", "create"}
  BY DEF Inv, TypeOK
<1>4. CASE timer' = Timeout("connect", NoHost) /\ UNCHANGED state /\ Return(c)
  <2>1. timer' \in [does : {"nothing", "reload", "connect"}, host : MaybeHost]
        /\ timer'.does # "nothing"
    BY <1>4 DEF Timeout, MaybeHost
  <2> QED
    BY <1>1, <1>2, <1>4, <2>1, Ends DEF Inv, TypeOK, KeepsTrying, Calls
<1>5. CASE /\ UNCHANGED timer
           /\ state' = IF mode = "reopen" THEN 4 ELSE 3
           /\ \/ Return(c) \/ Throw(c)
              \/ Put(c, Call("interval", ip, chain[c].then)) /\ UNCHANGED view
  <2>1. /\ chain' \in [Chains -> Calls] /\ PingCaught'
        /\ shown' \in BOOLEAN /\ creating' \in BOOLEAN
    <3>1. CASE Return(c) \/ Throw(c)
      BY <3>1, Ends
    <3>2. CASE Put(c, Call("interval", ip, chain[c].then)) /\ UNCHANGED view
      <4>1. Call("interval", ip, chain[c].then) \in Calls
        BY <1>3, CallType DEF Inv, TypeOK, Steps
      <4> QED
        BY <3>2, <4>1, PutCall DEF Call, view, Inv, TypeOK
    <3> QED
      BY <1>5, <3>1, <3>2
  <2> QED
    BY <1>1, <1>2, <1>5, <2>1 DEF Inv, TypeOK, KeepsTrying, Calls
<1> QED
  BY <1>4, <1>5 DEF ResumePing

LEMMA ResumeKeepsInv ==
    ASSUME Inv, NEW c \in Chains, Resume(c)
    PROVE  Inv'
<1>1. chain[c].then \in {"stop", "mount", "create"} /\ chain[c].host \in MaybeHost
  BY DEF Inv, TypeOK
<1>2. \A at \in {"proxy", "run", "describe", "stop", "deps"}, h \in MaybeHost,
         then \in {"stop", "mount", "create"} :
        Call(at, h, then) \in Calls /\ Call(at, h, then).at = at
  BY CallType DEF Steps, Call
<1>3. Idle \in Calls /\ Idle.at # "ping"
  BY CallType DEF Idle, Steps, MaybeHost, Call
<1>4. shown \in BOOLEAN /\ creating \in BOOLEAN
  BY DEF Inv, TypeOK
<1>5. CASE ResumeThrow(c)
  <2>1. chain[c].at # "ping"
    BY <1>5 DEF ResumeThrow, Inv, PingCaught
  <2> QED
    BY <1>5, <2>1, Ends, ResumeQuietly DEF ResumeThrow, inst
<1>6. CASE ResumeLoad(c)
  BY <1>6, ResumeLoadKeepsInv
<1>7. CASE ResumePing(c)
  BY <1>7, ResumePingKeepsInv
<1>8. CASE ResumeInterval(c)
  <2>1. PICK call \in Calls : Put(c, call) /\ call.at # "ping"
    BY <1>1, <1>2, <1>3, <1>8 DEF ResumeInterval, Inv, TypeOK
  <2> QED
    BY <1>4, <1>8, <2>1, PutCall, ResumeQuietly DEF ResumeInterval, Resumed, inst, view
<1>9. CASE ResumeProxy(c)
  <2>1. /\ chain' \in [Chains -> Calls] /\ PingCaught'
        /\ \A d \in Chains \ {c} : chain'[d] = chain[d]
        /\ shown' \in BOOLEAN /\ creating' \in BOOLEAN
    BY <1>9, Ends DEF ResumeProxy
  <2>2. /\ chain[c].at # "ping"
        /\ UNCHANGED <<mode, auto, cloud, data, ip, timer, proxy, loading>>
        /\ state' = state \/ state' = 4
    BY <1>9 DEF ResumeProxy, Resumed
  <2> QED
    BY <2>1, <2>2, ResumeQuietly
<1>10. CASE ResumeDeps(c)
  <2>1. CASE Return(c)
    <3>1. /\ chain' \in [Chains -> Calls] /\ PingCaught'
          /\ \A d \in Chains \ {c} : chain'[d] = chain[d]
          /\ shown' \in BOOLEAN /\ creating' \in BOOLEAN
      BY <2>1, Ends
    <3>2. chain[c].at # "ping" /\ UNCHANGED <<mode, auto, cloud, inst, proxy>>
      BY <1>10 DEF ResumeDeps, Resumed
    <3> QED
      BY <3>1, <3>2, ResumeQuietly DEF inst
  <2>2. CASE Put(c, Call("run", NoHost, chain[c].then)) /\ UNCHANGED view
    BY <1>1, <1>2, <1>4, <1>10, <2>2, PutCall, ResumeQuietly
       DEF ResumeDeps, Resumed, inst, view, MaybeHost
  <2> QED
    BY <1>10, <2>1, <2>2 DEF ResumeDeps
<1>11. CASE ResumeRun(c)
  <2>1. CASE UNCHANGED loading /\ Return(c)
    <3>1. /\ chain' \in [Chains -> Calls] /\ PingCaught'
          /\ \A d \in Chains \ {c} : chain'[d] = chain[d]
          /\ shown' \in BOOLEAN /\ creating' \in BOOLEAN
      BY <2>1, Ends
    <3>2. /\ chain[c].at # "ping"
          /\ UNCHANGED <<mode, auto, cloud, data, ip, state, timer, proxy>>
      BY <1>11 DEF ResumeRun, Resumed
    <3> QED
      BY <2>1, <3>1, <3>2, ResumeQuietly
  <2>2. CASE Load(c, chain[c].host, chain[c].then) /\ UNCHANGED view
    BY <1>1, <1>2, <1>4, <1>11, <2>2, PutCall, ResumeQuietly
       DEF ResumeRun, Resumed, view, Load
  <2> QED
    BY <1>11, <2>1, <2>2 DEF ResumeRun
<1>12. CASE ResumeTerminate(c)
  <2>1. CASE UNCHANGED <<data, ip, state>> /\ Put(c, Idle)
    BY <1>3, <1>4, <1>12, <2>1, PutCall, ResumeQuietly DEF ResumeTerminate, Resumed, view
  <2>2. CASE /\ data' = NoHost /\ state' = 0 /\ ip' = NoHost
             /\ Put(c, Call("stop", NoHost, "stop"))
    <3>1. chain' \in [Chains -> Calls] /\ PingCaught'
      BY <1>2, <2>2, PutCall DEF MaybeHost
    <3> QED
      BY <1>12, <2>2, <3>1
         DEF ResumeTerminate, Inv, TypeOK, AddressMatches, KeepsTrying, Calls, view, MaybeHost
  <2> QED
    BY <1>12, <2>1, <2>2 DEF ResumeTerminate
<1>13. CASE AutoCreate(c)
  <2>1. PICK call \in Calls : Put(c, call) /\ call.at # "ping"
    BY <1>2, <1>3, <1>13 DEF AutoCreate, MaybeHost
  <2>2. shown' \in BOOLEAN /\ creating' \in BOOLEAN
    BY <1>4, <1>13 DEF AutoCreate
  <2> QED
    BY <1>13, <2>1, <2>2, PutCall, ResumeQuietly DEF AutoCreate, inst
<1> QED
  BY <1>5, <1>6, <1>7, <1>8, <1>9, <1>10, <1>11, <1>12, <1>13 DEF Resume

-----------------------------------------------------------------------------
LEMMA InvariantHolds == Spec => []Inv
<1>1. Inv /\ [Next]_vars => Inv'
  <2> SUFFICES ASSUME Inv, [Next]_vars PROVE Inv'
    OBVIOUS
  <2>1. CASE UNCHANGED vars
    BY <2>1 DEF vars, inst, view, Inv, TypeOK, AddressMatches, KeepsTrying, PingCaught
  <2>2. CASE \E c \in Chains : Answer(c) \/ Resume(c)
    BY <2>2, AnswerKeepsInv, ResumeKeepsInv
  <2> QED
    BY <2>1, <2>2, UserKeepsInv, FireKeepsInv, CloudKeepsInv DEF Next
<1> QED
  BY InitInv, <1>1, PTL DEF Spec

(* The address shown is always that of the instance shown: whichever load, *)
(* ping or destroy completes last, globalInst never pairs the address of   *)
(* one host with the id of another.                                        *)
THEOREM InstanceAddressMatches == Spec => []AddressMatches
<1>1. Inv => AddressMatches
  BY DEF Inv
<1> QED
  BY InvariantHolds, <1>1, PTL

(* A host that is not connected yet is always being tried: updateInst and  *)
(* updateConnect leave a timeout or a ping behind on every path that does  *)
(* not end in an exception, and an exception of a load leaves its spinner. *)
THEOREM InstanceKeepsTrying == Spec => [](TypeOK /\ KeepsTrying)
<1>1. Inv => TypeOK /\ KeepsTrying
  BY DEF Inv
<1> QED
  BY InvariantHolds, <1>1, PTL

(* The store, its window and the calls in flight stay within their types,  *)
(* whatever overlaps: a timer, an address or a proxy is of a host or none. *)
THEOREM InstanceTypes == Spec => []TypeOK
<1>1. Inv => TypeOK
  BY DEF Inv
<1> QED
  BY InvariantHolds, <1>1, PTL
=============================================================================
