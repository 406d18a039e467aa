# CloudTun in TLA+

CloudTun buys a spot host at Tencent Cloud, runs a small proxy server on it, and sends the
traffic of a desktop or a phone through it.  This directory models the parts of the program whose
correctness depends on order, time and failure, checks them with TLC on small instances, and
proves the safety properties that matter most with TLAPS for every value of the constants.

Paths below are relative to the repository.  `M.tla` is the model of a component, `MCM.tla` and
`MCM*.cfg` its instance for TLC, `M_proofs.tla` its theorems.

    tlc -config MCBackend.cfg MCBackend      # one run
    tlapm Backend_proofs.tla                     # one proof module

## 1. The system

| Part | Code | State | Operations | What is hard |
|---|---|---|---|---|
| Server, idle shutdown | `src-server/src/main.rs`, `context.rs`, `routes.rs`, `src-common/src/tencent.rs` | `last_ping_ts` behind a mutex, the timer task | ping, interval tick, `is_ping_expired`, `destroy_cvm` | a ping between the reading of the clock and the comparison; unsigned difference; a wall clock that is set; calls that fail or panic |
| Ping loops | `src-vpn/src/ping.rs`, `src-tauri/src/ping.rs`, `src-common/src/ping.rs` | an interval, one request at a time | tick, ask, go on or end | no timeout of a request; no knowledge of the server's limit; lost pings that only the desktop reports |
| Tunnel relay | `src-common/src/proxy.rs`, `src-server/src/proxy.rs`, `src-common/src/encode.rs` | two split streams, four tasks | read, encipher, send, receive, decipher, write, close | streams cut into frames anywhere; either side shuts, leaves or breaks at any time; tasks that are aborted with bytes in hand |
| Route matcher | `src-proxy/src/route.rs` | the byte trie, `rules_count` | load rules, `match_domain` | the order of the rules; the first and last byte |
| Local proxy loop | `src-tauri/src/proxy.rs`, `src-proxy/src/handler.rs` | the slot with the cancellation token, the port | start, stop, the spawned task | the task registers itself; the old loop still has the port; failure after success was reported |
| Frontend instance store | `src/store/instance.ts`, `src/service/tencent.ts`, `src/views/proxy/*` | `globalInst`, one timer, chains of awaits | load, create, poll, ping, start the proxy, destroy | several chains in flight share everything; answers in any order |
| Virtual DNS | `src-vpn/src/virtual_dns.rs`, `vpn.rs` | LRU list, two maps, the next address | query, touch, resolve, purge | expiry, reuse of addresses, a full pool, two maps kept inverse by hand |
| Android VPN | `src-vpn/src/android.rs`, `src-tauri/src/android.rs`, the Kotlin service, plugin and activity, `Control.tsx` | `isVpnConnected`, `vpnInterface`, `TUN_QUIT`, the switch | start, stop, permission, destroy, sticky restart | nothing waits for anything; the system revokes, destroys and kills |
| Desktop backend | `src-tauri/src/ping.rs`, `notify.rs` | the token of the ping loop, the notification window | start and stop of the loop, show and close of the window | take and replace in two critical sections; check, then build |
| Cloud resources | `src/service/instance.ts` | VPC, subnet, security group in the cloud | look for three at once, create what is missing | failure at any call, lost answers, a lookup that goes on after its attempt is over, two attempts at once, a zone that changes meanwhile |
| Host page | `src/views/settings/Instance.tsx` | the form, the options, calls in flight | pick region, zone, type, image; save | each answer corrects the value below, when something else may be picked already |
| Settings | `src/store/settings.ts`, `service/settings.ts`, `views/settings/*`, `Layout.tsx`, `views/proxy/Bandwind.tsx` | `globalSettings`, the pending write, the file | save on three pages and a dialog, deferred write, restart | one save writes in three parts with awaits between; what is written late is lost in a restart |
| Log | `src/store/log.ts` | log lines | append | `log.ts` trims with `unshift()` and so never does |

How they interact: the **instance store** asks the cloud for the host, pings its **server**, and then
tells the backend to start the **ping loop** and the **proxy loop** (desktop), or lets the user
switch on the **Android VPN**.  The proxy loop asks the **route matcher** where a CONNECT goes;
what goes to the proxy becomes a **tunnel relay** to the server.  The VPN names the addresses of
the packets it takes with the **virtual DNS**, and every TCP connection becomes a tunnel relay.
The pings keep the server from **shutting itself down**.  Before a host is bought the store sees to
its **cloud resources**, from the **settings** that the **host page** has saved.

## 2. The modules

### VirtualDns, VpnNaming, AddressLease

`VirtualDns` has the four fields of the struct (`lru` with its `entry`, `nameToIp`, `nextAddr`) and
one action per outcome of `find_or_allocate_ip` (`QueryHit`, `QueryAllocate`, `QueryExhausted`, each
with the purge of the expired entries at the front of the list), `TouchAndResolve` for a TCP accept,
`Tick` and `Restart`.  A handler holds the mutex from start to end (`vpn.rs:40`, `:92-96`), so it is
one action; it reads the clock more than once, which is `now'`.  The pool of 131070 addresses is
`PoolSize`; the scan for a vacant one is stated by its result (`FirstVacant`).
`VpnNaming` adds those who use it: answers that applications keep for the TTL written into them,
connections, a restart of the VPN.  `AddressLease` is the abstract specification: leases that are
renewed, granted, refused only when all are alive; no list, no maps, no scan.

### IdleShutdown

Times are ages (clock less stored time), so that time has no end and saturates where every comparison
has the same outcome.  `StartCheck` is the interval tick and the first line of `is_ping_expired`,
`Compare` the rest under the lock, `Describe` and `Terminate` the two API calls of `destroy_cvm`.
A refused call goes back to the loop; one that cannot be sent panics in `tx_call_api` and ends the
task.  `Diff` keeps the unsigned wrap of a release build.  `Age` is how old the last ping was when the clock was
read, in true time and negative if it came after that, and `Drift` how far the wall clock can be off: the
properties are stated in these two.

### KeepAlive

`IdleShutdown` with a client that keeps its host: the loop of a desktop or of a phone (`kind`), which asks at
its tick (`Ask`), reaches the server (`Reach`, the server's `Ping`), gets the answer (`Pong`) or does not
(`PingFails`: the desktop tells the user and ends, the phone goes on).  `slow` remembers that the client was suspended
over a tick or that a request took longer than `Latency`, since nothing in the code bounds either.

### ProxyLoop

`Start` and `Stop` are the commands of `src-tauri/src/proxy.rs`; the task then does `Register`,
`Load` (which may panic), `Bind` (`refused` while another loop of the program has the port, `barred` when another
program has it or the system refuses, at any time) and `Shutdown`, with commands between any two.  `early` and `rushed` remember that commands came closer together than the
code can stand; the properties name them.

### PingLoop, Backend

`PingLoop` is the registry of `src-tauri/src/ping.rs`: `PingStart` takes and cancels the old token under one
lock, `PingPut` puts the new one down under another, `PingStop` takes it, `PingEnds` is a loop that was
cancelled or got no answer.  `crowded` remembers that two starts were between their locks at once.
`Backend` puts it beside `ProxyLoop`, as `lib.rs` does: two states, one process, every command a task of
its own; its run checks the properties of both.

### InstanceStore

One step is the JavaScript from one await to the next.  A chain holds the call it waits for; the other
side answers (`Describe`, `RunInstances`, `Pong`, `ApiFails`, ...), and later the chain goes on with
that answer (`Resume...`) while reload, create, destroy, a page change and the timer have run in
between.  The cloud is external: hosts boot, serve, are terminated, are taken back.

### RouteTrie

The trie as a function from paths to match types; `LoadRule` is one line of the rule file, `Match`,
`Follow` and `Answer` the search byte by byte.  Domains are read from their last byte, as the code
does.  Parsing a line is abstracted to what comes of it.

### TunnelRelay

The four tasks of one connection, the application and the remote at its ends, and the web socket
between.  `write_all` is written part by part (`Deliver`, `WriteRemote`), so that `Abort` can drop a task in the middle of
a frame; `HostVanishes` takes the server away at any moment, without a word: `told` is the set of the ends that know
of a broken link.  An end learns of it when what it sends is not answered (`SentIntoVoid`), or by a reset that
may come or not (`Notice`); the code has no keep-alive, ping or timeout, so an end that only receives need
never be told.  Bytes are numbers in the order they were sent, an enciphered one is negative.  `Xor` treats
whole blocks of a frame and leaves the rest, which is what `xor_inplace_simd` does.  How much a read
returns is free, so every cutting of the stream into frames is met.
`ByteStream` is the abstract specification of one direction: a source that writes, a sink that gets a part of
what is on its way, an end after which nothing is delivered; no frames, no cipher, no tasks.  It is
instantiated twice, as `UploadStream` and `DownloadStream`.

### VpnService

The switch (`Press`, `StartVpn`, `StopVpn`, `PluginFails`, with the flip that ignores the answer),
the permission dialog, the main thread of the service (`HandleStart`, `HandleBare`, `HandleStop`,
`HandleDestroy`), the native run (`Register`, `RunCancelled`, `RunFails`) and Android (`Destroy`,
`Revoke`, `Kill`).  Messages to the main thread are handled in order; a service that was stopped is
destroyed once its interface is gone.  A returning run closes its descriptor by number, which may by
then be the number of a newer one: both outcomes are allowed.

### InstanceForm

One step is an event handler of the host page with the watchers it sets off, up to their awaits.  The form
is a record that may hold `undefined` and `''`, which the schema tells apart (`''` is a string) and so does
`??=`.  A call in flight is a record of what was asked with which region and argument; answers are free,
since what the cloud sells changes.  An image stands for its region.  `hurried` remembers that a region
was picked while zones were being asked for, `built` what the build put into `DefaultSettings`: region, zone and type are
separate settings of the build, so that a type may come without a zone, and a zone with another region.

### CloudDeps

An attempt is a record with the state of its three lookups; `loadVpc` goes on after the attempt is over, as
the code does when `Promise.all` has rejected.  The region is read when a request leaves, the zone in
its body before; `name` is the zone that names and addresses the subnet, `body` the one read later.  Every
call may succeed, return an error, throw, or do its work and lose the answer.  `stirred` (the zone was
changed under an attempt) and `overlapped` (an attempt began while another was under way) are the
premises of the properties.

### Settings

`globalSettings` cut down to what the pages write: keys, host, bandwidth, autostart and rules.  The save of
the common page is cut at its awaits (`SaveCommon`, `Asked`, `Changed`, `SystemFails`); every write of a
setting starts the timeout of `store/settings.ts` again (`Watched`, `Write`); `Restart` is a quit, a kill or
a reload: the disk is read and whatever waited is gone.  `Menu` asks `validateSettings`, `Dropdown` (narrow
windows) does not; `Resize` swaps them at any moment while a view is shown, and `unasked` remembers that the
view was picked in the dropdown.  Either key may be a setting of the build.

## 3. The runs

| Run | What it checks | Bounds |
|---|---|---|
| `vpn_naming` | `Consistent`: list, maps and order of expiry always agree. `LeaseSpec`: VirtualDns implements AddressLease, and so renames no address before its mapping has expired. `AnswersHonoured`: an answer in its TTL resolves to the name asked for | 3 names on 2 addresses, so that the pool is exhausted and addresses are reused; time to 4, twice `MappingTimeout`, so that entries expire and come back; 1 connection |
| `idle_panic` (violation) | README.md:9 without exception | no setting of the clock: a call that cannot be sent is enough |
| `keep_alive` | The server alone: `CheckIsExact`: the host is kept only if a ping came within the limit before the clock was read, and given up only if none did or if the unsigned difference wrapped: by a ping after the reading, or on a clock set back past the last ping; all to within what the clock was set by. `IdleHostGoneOrTimerDead`. And with its client: `UsedHostKept`: as long as a loop goes on that is not slow, the host is given up, but for the same wrapped difference, only after so many lost pings in a row that their periods exceed the limit; on the desktop not after a single one | limit 5, periods 2: several checks before expiry and bursts of missed ticks; the host is kept after one lost ping and given up after two; latency 1; one setting of the clock by up to 2 either way, enough to make it older and younger than it is and the difference negative |
| `proxy_loop` | `SlotIsLive`, `NoOrphan`, `CancelledLetsGo`, `StopStops`; `StartStarts`: a start that was not rushed listens in the end, unless its rules could not be loaded or the port was barred (another program, the system); `PingsRegistered`: unless two starts are between their locks, a ping loop that goes on is the registered one | 3 starts of the proxy: one running, one spawned, one refused at the same time; 2 of the ping, with any number of stops: one replaces the other |
| `instance_store` | `AddressMatches`: however calls overlap, the address shown is that of the instance shown. `KeepsTrying`: a host not connected is never left with nothing under way | 2 hosts, so that a stale answer can be about another; 2 calls in flight, so that every pair of handlers overlaps; desktop, mobile and reopened windows |
| `instance_connects` | `Connects`: a host that is shown and stays becomes connected, at its own address, unless a failed load has left the spinner turning or a stale answer has left the window pinging without an address for good (`PingsNowhere`) | 1 host, so that every answer is about it and its address is found or cleared; 2 calls, so that a stale answer can come last; desktop |
| `route_trie` | `LongestRuleWins`: a host goes the way of the longest rule it ends with. `PanicsOnlyOnPath`: loading is given up only on the path of an earlier rule | all files of 3 lines over all domains of 1 to 3 of two bytes, against all hosts of 1 to 4 bytes: prefix, equal, longer and diverging are all there |
| `tunnel_relay` | `UploadStream`, `DownloadStream`: each direction implements `ByteStream`, so that what has arrived is in order; `UploadArrives`, `DownloadArrives`; `RelayEnds`: all four tasks end once both sides have, unless the link broke and the client was never told | blocks of 2 and 3 bytes up: a whole block, a rest, two frames; 2 bytes down; windows of 2 frames; the link may break at any moment, with each end told or not |
| `vpn_service` | `StopReaches`, `TrafficGivenBack`, `ConnectedHasRun`, `ConnectedServes`, `StopStops` | 2 interfaces that are used again when nothing refers to them, so any number of starts; 1 press waiting; 2 messages waiting beside a destroy |
| `host_form` | `ReadyMeansComplete`: settings with an image name a type, and a zone unless the program was built with a type and no zone. `ZoneOfRegion`: the zone saved is one of the region saved, unless a region was picked while zones were being asked for or the program was built with a zone of another region | every build: any region with any zone or none and any type or none; 2 regions with 2 and 1 zones, so that a zone can belong to the wrong one and an answer offer a choice; 2 types; the user waits while 2 calls are in flight (answers may add a third), enough for an old and a new answer to overtake each other; a third call equal to two in flight is not told apart |
| `cloud_deps` | `NoneTwice`: no network or group twice for a region, no subnet twice for a zone. `NothingInTheWay`: nothing an attempt left makes the cloud refuse a later one | 3 zones, two in one region, the third with the same number as one of them in another; 3 attempts: one that fails early, one that fails late, one that goes through; after a zone change under an attempt no further change, after an overlap no further attempt |
| `settings_pages` | `CommonAsSaved`: when no save is under way, settings and system are as last saved, unless saves crossed, failed or were cut off. `ProxyIsConfigured`: the proxy view is shown only with keys and a host, unless it was picked in the dropdown | every choice of keys in the build; any number of resizes; 1 host and none; 2 sets of rules, so that an older save can overwrite; bandwidths 200 and 1000, on both sides of the host page's limit; 2 saves at once; any number of restarts |

The runs also check the type invariants, which say what a type alone would not (a call in flight belongs to an
open page, an attempt that buys has all three resources); `route_trie`, `proxy_loop` and `settings_pages` have none.  Deadlock checking is off only where the
system may really stop: a host that is gone, starts and lines used up, a connection that is over.

### Fairness, and why the code has it

* tokio polls a task that can go on, the browser's event loop runs callbacks, Android's main thread takes its
  messages, threads run: weak fairness of those steps, everywhere.
* Time and the interval tick go on (`IdleShutdown`); a cloud does what it has accepted.
* Strong fairness only where something is tried again and again: calls that are repeated every minute are
  not refused for ever (`IdleShutdown`; that none ever *panics* is not assumed), a server pinged every two
  seconds answers at last, a timer gets its turn when the bound on calls in flight has held it back
  (`InstanceStore`).
* Nobody is assumed to press, write, leave, revoke, kill or break anything.

## 4. What is proved

| Module | Theorem | For every |
|---|---|---|
| `VpnNaming_proofs` | `VirtualDnsConsistent`, `AddressNotReusedEarly`, `VirtualDnsLeases`, `LeasesExclusive`, `MappingsHeld`; `TimelyAnswersHonoured`, `VpnTypes` | pool, timeout, set of names, clock; any answer life up to the timeout |
| `Backend_proofs` | `ProxyTypes`, `SlotAlwaysLive`, `NoLoopOrphaned`, `PingsAlwaysRegistered` | number of starts of either loop |
| `InstanceStore_proofs` | `InstanceTypes`, `InstanceAddressMatches`, `InstanceKeepsTrying` | number of hosts, of calls, windows |
| `Backend_proofs` | `RouteIsLongestRule`, `PanicIsOnPath` (of `RouteTrie`) | alphabet, rules and hosts |
| `ProxyServer_proofs` | `RelayTypes`, `RelayInOrder`, `UploadIsStream`, `DownloadIsStream` | window, block size, number of bytes |
| `ProxyServer_proofs` | `IdleTypes`, `CheckAlwaysExact`; `KeepIsIdle`, `KeepTypes`, `UsedHostAlwaysKept`, `LossesSurvived` | limit, period of the check, delay of the lock, settings of the clock; period and latency of the loop |
| `InstanceForm_proofs` | `InstanceFormTypes`, `ReadyAlwaysComplete`, `ZoneAlwaysOfRegion` | regions, zones, types, number of calls |
| `CloudDeps_proofs` | `CloudDepsTypes`, `CloudDepsOnce`, `CloudDepsFit` | zones, regions and numbers, number of attempts |
| `Settings_proofs` | `CommonAlwaysAsSaved`, `ProxyAlwaysConfigured` | hosts, rules, widths, number of saves at once |
| `VpnService_proofs` | `VpnServiceTypes`, `StopAlwaysReaches`, `TrafficAlwaysGivenBack`, `ConnectedAlwaysHasRun` | number of interfaces, presses, messages |

The proofs assume only the named assumptions on the constants, which TLC evaluates in the runs (for
example `AnswerLife <= MappingTimeout`: 5 s against 60 s in the code).

* **VirtualDns.**  `Consistent` is inductive with the types.  The heart is that moving an entry to the back with
  the latest expiry keeps the list sorted by expiry, so that stopping the purge at the first unexpired entry
  drops exactly the expired ones; the prefix dropped and the maps restricted to the rest stay inverse.  The
  refinement maps an entry to a lease; a purge is not visible in `AddressLease`, which only speaks of live leases.  What
  `AddressLease` promises is proved of it alone (`LeasesExclusive`, and `MappingsHeld` through the refinement), from
  the fact that an expired lease is left only as long as no name has been asked for since.
* **VpnNaming.**  Strengthened by: the entry of an answer of this run does not expire before the answer does.
* **ProxyLoop.**  `NoOrphan` needs that no token in the slot was cancelled and that, unless a command came early, at most
  one task is unregistered and then nothing else lives uncancelled.
* **PingLoop.**  `PingsRegistered` needs that, unless crowded, at most one start is between its two locks, and that the
  registry is empty then; so what it puts down replaces nothing that goes on.
* **InstanceStore.**  `AddressMatches` is nearly inductive, each action alone; `KeepsTrying` needs that a state of 1 or
  2 with an instance is only entered with a timer set or a ping sent, and that every step that takes away a
  timer or a ping puts something in its place.
* **RouteTrie.**  The loaded rules are exactly the typed nodes; a node exists exactly when some rule goes through it; during
  the search `ret` is the type of the longest rule among the prefixes followed so far.
* **TunnelRelay.**  `InOrder` says what has arrived; inductive is what is on its way.  For each direction the pieces in hand
  and in transit, in the order they lie between the two ends, are runs of consecutive byte numbers, each frame
  with its offset (`Framed`), and each starts where the one after it ends; what a dropped task or a broken
  connection loses is at the sending side of everything that still arrives, so the chain has no gap.  Frames are
  enciphered as a whole and stay whole, so deciphering twice is the identity (`XorTwice`), which is why each end
  must see the frames as the other cut them.  The refinement maps what was sent and what arrived to
  themselves, and the stream is open as long as the receiver is there and the task that writes to it goes on.
* **IdleShutdown.**  `CheckIsExact` needs that the ages on the wall clock and the true ones differ by no more than the
  clock was set by so far (`WallClock`), where the ages saturate too; and that the unsigned difference either is the
  difference or exceeds the limit (`DiffWraps`), the second exactly when the ping is later than the reading on the
  wall clock, which then lies, in truth too, within the drift of it.
* **KeepAlive.**  Each step of the composition is a step of the server or none (`KeepIsIdle`), so its invariant and
  `CheckIsExact` carry over.  Besides
  (`OnSchedule`): unless slow, the idle time is at most one period for every lost ping plus the time since the
  last tick, in each of the three places the loop can be in; and the reading of the clock makes the host look no
  older than it is (`ReadNotOlder`), even if the clock is set while the check waits.  With the numbers of the code,
  60 s and 600 s, a right clock and a latency of up to a minute, `LossesSurvived` gives eight lost pings in a row; its
  conclusion, like that of `UsedHostKept`, names the wrapped difference, which costs a host with no ping lost.
* **VpnService.**  Strengthened by three facts: no interface without the permission; an unregistered run that nothing has
  crossed is alone and finds `TUN_QUIT` free; a run that failed has left its token there.
* **InstanceForm.**  `ReadyMeansComplete` is not inductive: a save takes over the form, so the form must have the property,
  and a type that has been given must not be lost with `''` above it.  The invariant says so from the top down:
  `''` in a field of the form or of the settings means `''` or `undefined` in the field below, and no call
  in flight can change that, since calls about types and images are only made for values that are given.
  Of the zone this holds in a program that was not built with a type and no zone; the chain from type to image needs
  no such premise.
  `ZoneOfRegion` needs that, as long as nobody hurried, all calls for zones are for the region the form has, and that
  the build put no zone of another one there.
* **CloudDeps.**  In a calm run at most one attempt is under way (a `loadVpc` left behind counts), so what it has not
  found is still not there when it makes it, and its name, body and region are those of the present zone; then
  ids are right, and every subnet has the number and the region of its zone.  That two zones of a region have
  different numbers (`ZonesAssumption`) keeps their addresses apart.
* **Settings.**  `CommonAsSaved` needs that, unless saves crossed, at most one waits, that it is about what was last
  saved, and that its switch is in the settings already.  For `ProxyIsConfigured`: a write is pending or the disk
  has what memory has, no save takes away keys or host, and the first view after a restart is chosen by the settings
  that were loaded; a view reached in any way but the dropdown was asked for with complete settings.

**Only model-checked.**  Liveness (`Connects`, `StartStarts`, `StopStops`, `CancelledLetsGo`, `ConnectedServes`,
`RelayEnds`, `UploadArrives`, `DownloadArrives`, `IdleHostGoneOrTimerDead`): TLAPS has no support here for fairness
and ENABLED.  All safety properties that the passing runs check, their type invariants and the refinements are
proved.  Induction over data is out of the prover's reach too, which is why the trie is a function of paths and its search a
sequence of steps, and why no module declares a recursive operator.

## 5. Findings

The result of a run that TLC finds violated:

* `idle_panic`: a request that cannot be sent panics inside the timer task; the server goes on without it and the
  idle host is never destroyed.

What was seen while modelling and is a premise of a property or outside a model, without a run of its own:

* The xor leaves what is left after the last whole block of 16 bytes as it is (`encode.rs:24-28` is commented
  out), against the test in the same file, whose text has 41 bytes.  Both ends agree, so the relay works.
* A ping in the instant between the reading of the clock and the lock makes the unsigned difference wrap, and so
  does a clock set back: the host is destroyed although it was just pinged (`context.rs:40-42`;
  `CheckIsExact`, `UsedHostKept` and `LossesSurvived` name both as the one case in which a host in use is given up).
* `touch_ip` is called when a connection is accepted and not while packets flow, so that a long connection outlives its
  mapping, other than `virtual_dns.rs:80-82` says; a leased-out address then names another site.
* Proxied requests do not count as use, only pings do (README.md:9 says client requests).  The loop of a phone goes on
  whatever comes of its pings and tells nobody that they are lost.
* A stop that comes before the spawned task has registered is lost, and a restart that comes before the old loop
  has let go of the port fails (`src-tauri/src/proxy.rs:79-87`; the premises `early` and `rushed`).  When another program has the port
  (`src-proxy/src/handler.rs:50`) the task ends after the command has answered Ok, and nobody is told (`barred`).
* In the store: a state may be 2 without an instance; a reopened window shows "proxying" after a ping, whether or
  not the proxy client runs (`instance.ts:148`); a load that fails makes the account look empty, and a second
  host of the same name is bought.
* The relay does not tell the remote that the application has shut its sending side, nor an application that
  keeps its side open that the remote has ended.  It has no keep-alive: a client that has nothing to send does not
  learn of a host that vanished, and its tasks stay (`src-common/src/proxy.rs:96`, `:119`; the exception of `RelayEnds`).
* A start delivered behind a stop is undone by the destruction of the instance that handles it; the VPN switch
  forgets the truth on a page change (`Control.tsx:21-25`) and then starts what is running; such a second start is
  refused by `TUN_QUIT` while the new interface takes the traffic; the notification says "VPN 代理已连接..."
  (`CloudTunVpnService.kt:65`) before, and without, a connection after the permission dialog or a sticky restart.
* `src-proxy/src/route.rs:59` calls every domain a duplicate that an earlier, longer one ends with: "a.example.com"
  followed by "example.com" panics, the other order does not (`PanicsOnlyOnPath` says exactly when).
* An answer sent before the host ran, and arriving after the one that found its address, clears the address; the
  ping under way fails, its timer replaces the reload that would have found the address again, and
  `http://undefined:24816/ping` is tried from then on (`instance.ts:112`, `:134`, `:151`), so that a host that
  serves is not connected until the user reloads.  `Connects` names it (`PingsNowhere`), without which TLC
  finds this trace; `KeepsTrying` holds, since something is always tried.
* On the host page, a region picked while zones are being asked for can end up with a zone of the other region
  (`Instance.tsx:120`; the premise of `ZoneOfRegion`); the images are asked for again only when the type changes, so
  that the settings can keep an image of the region before; `''`, which a first run has for the zone, defeats
  `??=`; in a program built with a type and no zone (`service/settings.ts:27`, `:32`) opening the page loads an image for
  that type, the schema takes the zone `''`, `validateSettings` is content and creating a host throws 'settings missing'
  (`tencent.ts:144`; the exception of `ReadyMeansComplete`); the default region `ap-singapore` is not among `RegionOptions`.
* Two attempts that overlap make a network twice, and so can two in a row, since `loadVpc` goes on after its attempt has
  failed.  A zone changed under an attempt gives its subnet the addresses of another zone, which later keeps
  that zone from having one (the premises of `NoneTwice` and `NothingInTheWay`).
* The bandwidth dialog allows 1000 (`Bandwind.tsx:50`), the host page's schema 200 (`Instance.tsx:60`): with more than
  200 the host page refuses to save whatever is changed on it.
* `Common.tsx:112` sets the switch before the system is told; if the system fails, pressing save again does nothing, since
  the setting already has the value.  A second save while the first one waits is overwritten with older rules.
* The dialog that picks applications can add some but not take any away (`Common.tsx:151`), and an empty list is saved as `''`
  and read back as one application without a name (`:94`).
* The dropdown of a narrow window shows the proxy view without asking `validateSettings`, and it stays when the window
  is widened (`Layout.tsx:98-112`; the exception of `ProxyIsConfigured`).
* Destroying the host leaves the ping loop running, which then announces that the host was lost.  Two calls of
  `show_notify_window` can both find no window (`notify.rs:44`).

## 6. What is not modelled, and why

Cryptography, signing and formatting of requests, parsing of rule files, packet handling (ipstack, external), UDP
relaying, the views' layout, build scripts: no state that the properties speak of.  The listening socket's
handling of one CONNECT before the relay (`src-proxy/src/proxy.rs`, `tunnel.rs`) is a parse and a branch.
`src-tauri/src/v2ray.rs` is not compiled in; `src-server` `test_handler` is a debugging page.
The iOS plugin is generated code and a stub.  The notification window (what building a second window under a label
that is taken does belongs to the windowing library), the log (an array that only grows), the balance and
share views, the list of Android applications and the passwords of the settings pages are not modelled.
`theme-colors.ts` is data, and `service/notify.ts` one call of the backend over code that is commented out.  The commands of `tencent.ts` for the automation
service (`:417-508`) serve functions of `views/proxy/helper.ts` that nobody calls (`waitInstanceReady`,
`createOrUpdateCommand`), and `AssociateAddress` has no caller.

## 7. Plan

Done, in this order: VirtualDns with AddressLease and VpnNaming (the most intricate data structure), IdleShutdown
(the one that costs money), ProxyLoop, InstanceStore, RouteTrie, TunnelRelay, VpnService, PingLoop with Backend,
InstanceForm, CloudDeps, Settings, ByteStream, KeepAlive.

Next:

1. **Notification window** (`notify.rs:44-90`: at most one, and its animation ends), composed with PingLoop, since the
   failing ping is what shows it.
2. **HostFleet**: server and frontends that all find the host by its name (`main.rs:101`, `instance.ts:65`).
3. **Compositions**: InstanceStore with Backend in place of its one-step proxy client, and with CloudDeps in place of
   its one-step `DepsReady`.
