--------------------------- MODULE CloudDeps_proofs ---------------------------
(***************************************************************************)
(* What the attempts to create a host leave in the cloud, for any zones    *)
(* and any number of attempts.                                             *)
(***************************************************************************)
EXTENDS CloudDeps, TLAPS

Steps == {"idle", "looking", "subnet", "group", "ready", "run", "over"}
Looks == {"idle", "ask", "make", "got", "failed"}
Nets  == [vpc : Nat, zone : Zones, idx : Nat]
Tries == [at : Steps, name : Zones, body : Zones,
          vpc : [at : Looks, id : Nat], net : [at : Looks, id : Nets \cup {NoNet}],
          group : [at : Looks, id : Nat]]

(* One attempt, with the ids of the networks, subnets and groups there are. *)
RecOK(t, V, N, G) ==
    /\ t \in Tries
    /\ t.vpc.id \in V \cup {0} /\ t.net.id \in N \cup {NoNet} /\ t.group.id \in G \cup {0}
    /\ t.vpc.at = "got" => t.vpc.id \in V
    /\ t.net.at = "got" => t.net.id \in N
    /\ t.group.at = "got" => t.group.id \in G
    /\ t.at = "looking" => "idle" \notin {t.vpc.at, t.net.at, t.group.at}
    /\ t.at \in {"subnet", "group", "ready", "run"} => t.vpc.at = "got"
    /\ t.at = "subnet" => t.net.at = "make" /\ t.group.at \in {"make", "got"}
    /\ t.at \in {"group", "ready", "run"} => t.net.at = "got"
    /\ t.at = "group" => t.group.at = "make"
    /\ t.at \in {"ready", "run"} => t.group.at = "got"

Typed ==
    /\ zone \in Zones
    /\ vpcs \in Seq(Regions) /\ groups \in Seq(Regions)
    /\ nets \subseteq Nets /\ \A n \in nets : n.vpc \in DOMAIN vpcs
    /\ DOMAIN attempt = Attempts
    /\ \A a \in Attempts : RecOK(attempt[a], DOMAIN vpcs, nets, DOMAIN groups)
    /\ refused \in BOOLEAN /\ stirred \in BOOLEAN /\ overlapped \in BOOLEAN

Up(t)     == t.at \notin {"idle", "over"} \/ t.vpc.at \in {"ask", "make"}
Active(t) == t.at \notin {"idle", "over"}

(* In a calm run an attempt under way has looked at what is still there.   *)
Right(t, z, vs, gs, ns) ==
    /\ t.vpc.at = "make" => In(vs, RegionOf[z]) = {}
    /\ Active(t) =>
          /\ t.name = z
          /\ t.at # "looking" => t.body = z
          /\ t.vpc.at = "got" => vs[t.vpc.id] = RegionOf[z]
          /\ t.group.at = "got" => gs[t.group.id] = RegionOf[z]
          /\ t.group.at = "make" => In(gs, RegionOf[z]) = {}
          /\ t.net.at = "got" => t.net.id.zone = z
          /\ t.net.at = "make" => \A n \in ns : n.zone # z

(* A subnet has the addresses and the region of its zone. *)
NetsFit(vs, ns) == \A n \in ns : n.idx = IdxOf[n.zone] /\ vs[n.vpc] = RegionOf[n.zone]

Single(vs, gs, ns) ==
    /\ \A i, j \in DOMAIN vs : vs[i] = vs[j] => i = j
    /\ \A i, j \in DOMAIN gs : gs[i] = gs[j] => i = j
    /\ \A m, n \in ns : m.zone = n.zone => m = n

Alone == \A a, b \in Attempts : Up(attempt[a]) /\ Up(attempt[b]) => a = b

Orderly ==
    /\ Alone
    /\ \A a \in Attempts : Up(attempt[a]) => Right(attempt[a], zone, vpcs, groups, nets)
    /\ NetsFit(vpcs, nets) /\ Single(vpcs, groups, nets)
    /\ ~refused

IInv == Typed /\ (Calm => Orderly)

-----------------------------------------------------------------------------
LEMMA Appended ==
    ASSUME NEW S, NEW s \in Seq(S), NEW r \in S
    PROVE  /\ Append(s, r) \in Seq(S)
           /\ DOMAIN Append(s, r) = DOMAIN s \cup {Len(s) + 1}
           /\ Len(s) + 1 \notin DOMAIN s /\ Len(s) + 1 \in Nat
           /\ Append(s, r)[Len(s) + 1] = r
           /\ \A i \in DOMAIN s : Append(s, r)[i] = s[i]
OBVIOUS

LEMMA AppendedOnce ==
    ASSUME NEW S, NEW s \in Seq(S), NEW r \in S, In(s, r) = {},
           \A i, j \in DOMAIN s : s[i] = s[j] => i = j
    PROVE  \A i, j \in DOMAIN Append(s, r) : Append(s, r)[i] = Append(s, r)[j] => i = j
BY Appended DEF In

LEMMA IdsAreNumbers ==
    ASSUME NEW S, NEW s \in Seq(S)
    PROVE  DOMAIN s \subseteq Nat /\ 0 \notin DOMAIN s
OBVIOUS

LEMMA NotAskedOK ==
    ASSUME NEW z \in Zones, NEW V, NEW N, NEW G
    PROVE  RecOK(NotAsked, V, N, G) /\ ~Up(NotAsked) /\ ~Active(NotAsked)
<1>1. (CHOOSE y \in Zones : TRUE) \in Zones
    OBVIOUS
<1> QED BY <1>1 DEF RecOK, NotAsked, Tries, Steps, Looks, Lookup, Up, Active

LEMMA RegionIsRegion == \A z \in Zones : RegionOf[z] \in Regions
BY DEF Regions

(* The attempt a goes on, the others are as they were. *)
LEMMA StepInv ==
    ASSUME IInv, NEW a \in Attempts, NEW rec, Set(a, rec),
           zone' = zone, vpcs' \in Seq(Regions), groups' \in Seq(Regions),
           DOMAIN vpcs \subseteq DOMAIN vpcs', DOMAIN groups \subseteq DOMAIN groups',
           nets \subseteq nets', nets' \subseteq Nets, \A n \in nets' : n.vpc \in DOMAIN vpcs',
           RecOK(rec, DOMAIN vpcs', nets', DOMAIN groups'),
           refused' \in BOOLEAN, stirred' = stirred, overlapped' \in BOOLEAN,
           Calm' => Calm /\ \A b \in Attempts : b # a => ~Up(attempt[b]),
           Calm' => /\ Right(rec, zone, vpcs', groups', nets')
                    /\ NetsFit(vpcs', nets') /\ Single(vpcs', groups', nets')
                    /\ ~refused'
    PROVE  IInv'
<1>1. /\ DOMAIN attempt' = Attempts /\ attempt'[a] = rec
      /\ \A b \in Attempts \ {a} : attempt'[b] = attempt[b]
    BY DEF Set, IInv, Typed
<1>2. \A b \in Attempts : RecOK(attempt'[b], DOMAIN vpcs', nets', DOMAIN groups')
    <2> SUFFICES ASSUME NEW b \in Attempts, b # a
                 PROVE  RecOK(attempt[b], DOMAIN vpcs', nets', DOMAIN groups')
        BY <1>1
    <2>1. RecOK(attempt[b], DOMAIN vpcs, nets, DOMAIN groups)
        BY DEF IInv, Typed
    <2> QED BY <2>1 DEF RecOK
<1>3. Typed'
    BY <1>1, <1>2 DEF Typed, IInv
<1>4. Calm' => Orderly'
    <2> SUFFICES ASSUME Calm' PROVE Orderly'
        OBVIOUS
    <2>1. \A b \in Attempts : b # a => ~Up(attempt'[b])
        BY <1>1
    <2>2. Alone'
        BY <2>1 DEF Alone
    <2>3. \A b \in Attempts : Up(attempt'[b]) => Right(attempt'[b], zone', vpcs', groups', nets')
        BY <1>1, <2>1
    <2> QED BY <2>2, <2>3 DEF Orderly
<1> QED BY <1>3, <1>4 DEF IInv

(* Only the attempt learns something. *)
LEMMA QuietStep ==
    ASSUME IInv, NEW a \in Attempts, NEW rec, Set(a, rec), UNCHANGED <<zone, cloud, past>>,
           Up(attempt[a]), RecOK(rec, DOMAIN vpcs, nets, DOMAIN groups),
           Calm => Right(rec, zone, vpcs, groups, nets)
    PROVE  IInv'
<1>1. UNCHANGED <<zone, vpcs, groups, nets, refused, stirred, overlapped>>
    BY DEF cloud, past
<1>2. Calm' => Calm /\ \A b \in Attempts : b # a => ~Up(attempt[b])
    BY <1>1 DEF Calm, IInv, Orderly, Alone
<1>3. Calm' => /\ Right(rec, zone, vpcs', groups', nets')
               /\ NetsFit(vpcs', nets') /\ Single(vpcs', groups', nets') /\ ~refused'
    BY <1>1 DEF Calm, IInv, Orderly
<1> QED BY <1>1, <1>2, <1>3, StepInv DEF IInv, Typed

(* An attempt that is over, and its loadVpc which may not be. *)
LEMMA EndedOK ==
    ASSUME NEW z \in Zones, NEW V, NEW N, NEW G, NEW vpc \in [at : Looks, id : Nat],
           vpc.id \in V \cup {0}, vpc.at = "got" => vpc.id \in V
    PROVE  /\ RecOK(Ended(vpc), V, N, G) /\ ~Active(Ended(vpc)) /\ Ended(vpc).vpc = vpc
           /\ Ended(vpc).at = "over"
<1>1. (CHOOSE y \in Zones : TRUE) \in Zones
    OBVIOUS
<1> QED BY <1>1 DEF RecOK, Ended, NotAsked, Tries, Steps, Looks, Lookup, Active

LEMMA QuitsAs ==
    ASSUME IInv, NEW a \in Attempts, NEW rec, 
           \/ rec = Ended(IF Loading(a) THEN attempt[a].vpc ELSE NotAsked.vpc)
           \/ rec = Ended(NotAsked.vpc),
           NEW V, NEW N, NEW G, DOMAIN vpcs \subseteq V
    PROVE  /\ RecOK(rec, V, N, G)
           /\ ~Active(rec)
           /\ rec.vpc.at = "make" => Loading(a) /\ attempt[a].vpc.at = "make"
<1>1. NotAsked.vpc = Lookup("idle", 0) /\ zone \in Zones
    BY DEF NotAsked, IInv, Typed
<1>2. /\ NotAsked.vpc \in [at : Looks, id : Nat]
      /\ NotAsked.vpc.id \in V \cup {0} /\ NotAsked.vpc.at = "idle"
    BY <1>1 DEF Lookup, Looks
<1>3. /\ attempt[a].vpc \in [at : Looks, id : Nat]
      /\ attempt[a].vpc.id \in V \cup {0}
      /\ attempt[a].vpc.at = "got" => attempt[a].vpc.id \in V
    BY DEF IInv, Typed, RecOK, Tries
<1>4. CASE rec = Ended(NotAsked.vpc)
    BY <1>1, <1>2, <1>4, EndedOK
<1>5. CASE rec = Ended(attempt[a].vpc) /\ Loading(a)
    BY <1>1, <1>3, <1>5, EndedOK
<1> QED BY <1>4, <1>5

-----------------------------------------------------------------------------
(* What is known of the attempt that a step is about. *)
LEMMA OfAttempt ==
    ASSUME IInv, NEW a \in Attempts
    PROVE  /\ RecOK(attempt[a], DOMAIN vpcs, nets, DOMAIN groups) /\ attempt[a] \in Tries
           /\ zone \in Zones /\ Region \in Regions
           /\ Calm /\ Up(attempt[a]) => Right(attempt[a], zone, vpcs, groups, nets)
BY RegionIsRegion DEF IInv, Typed, RecOK, Orderly, Region

LEMMA StopQuietly ==
    ASSUME IInv, NEW a \in Attempts, Stop(a), Up(attempt[a]), UNCHANGED <<zone, cloud, past>>
    PROVE  IInv'
<1> DEFINE rec == Ended(IF Loading(a) THEN attempt[a].vpc ELSE NotAsked.vpc)
<1>1. RecOK(rec, DOMAIN vpcs, nets, DOMAIN groups)
    BY QuitsAs
<1>2. ~Active(rec) /\ (rec.vpc.at = "make" => attempt[a].vpc.at = "make")
    BY QuitsAs
<1>3. Calm => Right(rec, zone, vpcs, groups, nets)
    BY <1>2, OfAttempt DEF Right, Region
<1>4. Set(a, rec)
    BY DEF Stop
<1> QED BY <1>1, <1>3, <1>4, QuietStep

LEMMA ThrowQuietly ==
    ASSUME IInv, NEW a \in Attempts, VpcThrows(a), Up(attempt[a]),
           UNCHANGED <<zone, cloud, past>>
    PROVE  IInv'
<1> DEFINE rec == Ended(NotAsked.vpc)
<1>1. RecOK(rec, DOMAIN vpcs, nets, DOMAIN groups)
    BY QuitsAs
<1>2. ~Active(rec) /\ rec.vpc.at # "make"
    BY EndedOK, OfAttempt, NotAskedOK DEF Ended, NotAsked, Lookup, Active
<1>3. Calm => Right(rec, zone, vpcs, groups, nets)
    BY <1>2 DEF Right
<1>4. Set(a, rec)
    BY DEF VpcThrows
<1> QED BY <1>1, <1>3, <1>4, QuietStep

LEMMA SaveZoneInv == IInv /\ SaveZone => IInv'
<1> SUFFICES ASSUME IInv, SaveZone PROVE IInv'
    OBVIOUS
<1>1. zone' \in Zones /\ UNCHANGED <<attempt, vpcs, groups, nets, refused, overlapped>>
      /\ stirred' = (stirred \/ \E a \in Attempts : Underway(a))
    BY DEF SaveZone, cloud
<1>2. Typed'
    BY <1>1 DEF IInv, Typed
<1>3. Calm' => Calm /\ \A a \in Attempts : ~Up(attempt[a])
    BY <1>1 DEF Calm, Underway, Loading, Up
<1>4. Calm' => Orderly'
    BY <1>1, <1>3 DEF IInv, Orderly, Alone
<1> QED BY <1>2, <1>4 DEF IInv

LEMMA StartInv == ASSUME NEW a \in Attempts PROVE IInv /\ Start(a) => IInv'
<1> SUFFICES ASSUME IInv, Start(a) PROVE IInv'
    OBVIOUS
<1> DEFINE rec == [NotAsked EXCEPT !.at = "looking", !.name = zone,
                     !.vpc = Lookup("ask", 0), !.net = Lookup("ask", NoNet),
                     !.group = Lookup("ask", 0)]
<1>1. RecOK(rec, DOMAIN vpcs, nets, DOMAIN groups)
    BY OfAttempt, NotAskedOK DEF RecOK, Tries, Steps, Looks, Lookup
<1>2. Right(rec, zone, vpcs, groups, nets)
    BY DEF Right, Lookup, NotAsked, Active
<1>3. /\ UNCHANGED <<zone, vpcs, groups, nets, refused, stirred>> /\ Set(a, rec)
      /\ overlapped' = (overlapped \/ \E b \in Attempts : Underway(b))
    BY DEF Start, cloud
<1>4. Calm' => Calm /\ \A b \in Attempts : b # a => ~Up(attempt[b])
    BY <1>3 DEF Calm, Underway, Loading, Up
<1>5. Calm' => /\ Right(rec, zone, vpcs', groups', nets')
               /\ NetsFit(vpcs', nets') /\ Single(vpcs', groups', nets') /\ ~refused'
    BY <1>2, <1>3, <1>4 DEF IInv, Orderly
<1>6. refused' \in BOOLEAN /\ stirred' = stirred /\ overlapped' \in BOOLEAN
    BY <1>3 DEF IInv, Typed
<1> QED BY <1>1, <1>3, <1>4, <1>5, <1>6, StepInv DEF IInv, Typed

(* What VpcComes puts in the attempt. *)
VpcRec(a, at, id) ==
    IF attempt[a].at = "over" /\ at # "make" THEN Ended(NotAsked.vpc)
    ELSE [attempt[a] EXCEPT !.vpc = Lookup(at, id)]

LEMMA VpcRecOK ==
    ASSUME IInv, NEW a \in Attempts, attempt[a].vpc.at \in {"ask", "make"},
           NEW at \in {"make", "got", "failed"}, NEW V, DOMAIN vpcs \subseteq V,
           NEW id \in Nat, id \in V \cup {0}, at = "got" => id \in V
    PROVE  /\ RecOK(VpcRec(a, at, id), V, nets, DOMAIN groups)
           /\ VpcRec(a, at, id).vpc.at = "make" => at = "make"
           /\ Active(VpcRec(a, at, id)) =>
                 VpcRec(a, at, id) = [attempt[a] EXCEPT !.vpc = Lookup(at, id)]
<1>1. CASE attempt[a].at = "over" /\ at # "make"
    <2>1. VpcRec(a, at, id) = Ended(NotAsked.vpc)
        BY <1>1 DEF VpcRec
    <2>2. RecOK(Ended(NotAsked.vpc), V, nets, DOMAIN groups)
        BY QuitsAs
    <2>3. ~Active(Ended(NotAsked.vpc)) /\ Ended(NotAsked.vpc).vpc.at = "idle"
        BY DEF Ended, NotAsked, Lookup, Active
    <2> QED BY <2>1, <2>2, <2>3
<1>2. CASE ~(attempt[a].at = "over" /\ at # "make")
    <2>1. VpcRec(a, at, id) = [attempt[a] EXCEPT !.vpc = Lookup(at, id)]
        BY <1>2 DEF VpcRec
    <2>2. RecOK([attempt[a] EXCEPT !.vpc = Lookup(at, id)], V, nets, DOMAIN groups)
        BY OfAttempt DEF RecOK, Tries, Lookup, Looks
    <2>3. [attempt[a] EXCEPT !.vpc = Lookup(at, id)].vpc.at = at
        BY OfAttempt DEF Tries, Lookup
    <2> QED BY <2>1, <2>2, <2>3
<1> QED BY <1>1, <1>2

LEMMA VpcComesQuietly ==
    ASSUME IInv, NEW a \in Attempts, attempt[a].vpc.at \in {"ask", "make"},
           NEW at \in {"make", "got", "failed"}, NEW id \in Nat,
           VpcComes(a, at, id), UNCHANGED <<zone, cloud, past>>,
           id \in DOMAIN vpcs \cup {0}, at = "got" => id \in In(vpcs, Region),
           at = "make" => In(vpcs, Region) = {}
    PROVE  IInv'
<1> DEFINE rec == VpcRec(a, at, id)
<1>1. RecOK(rec, DOMAIN vpcs, nets, DOMAIN groups)
    BY VpcRecOK DEF In
<1>2. Up(attempt[a])
    BY DEF Up
<1>3. ASSUME Calm PROVE Right(rec, zone, vpcs, groups, nets)
    <2>1. rec.vpc.at = "make" => In(vpcs, RegionOf[zone]) = {}
        BY VpcRecOK DEF Region, In
    <2>2. CASE Active(rec)
        <3>1. rec = [attempt[a] EXCEPT !.vpc = Lookup(at, id)]
            BY <2>2, VpcRecOK DEF In
        <3>2. /\ rec.vpc.at = at /\ rec.vpc.id = id
              /\ rec.at = attempt[a].at /\ rec.name = attempt[a].name
              /\ rec.body = attempt[a].body
              /\ rec.net = attempt[a].net /\ rec.group = attempt[a].group
            BY <3>1, OfAttempt DEF Tries, Lookup
        <3> HIDE DEF rec
        <3>3. Right(attempt[a], zone, vpcs, groups, nets) /\ Active(attempt[a])
            BY <1>2, <1>3, <2>2, <3>2, OfAttempt DEF Active
        <3> QED BY <2>1, <2>2, <3>2, <3>3 DEF Right, Region, In
    <2> QED BY <2>1, <2>2 DEF Right
<1>4. Set(a, rec)
    BY DEF VpcComes, VpcRec
<1> QED BY <1>1, <1>2, <1>3, <1>4, QuietStep

LEMMA DescribeVpcsInv == ASSUME NEW a \in Attempts PROVE IInv /\ DescribeVpcs(a) => IInv'
<1> SUFFICES ASSUME IInv, DescribeVpcs(a) PROVE IInv'
    OBVIOUS
<1>1. attempt[a].vpc.at = "ask" /\ UNCHANGED <<zone, cloud, past>> /\ Up(attempt[a])
    BY DEF DescribeVpcs, Up
<1>2. ASSUME NEW i \in In(vpcs, Region), VpcComes(a, "got", i) PROVE IInv'
    <2>1. i \in Nat /\ i \in DOMAIN vpcs
        BY <1>2, IdsAreNumbers DEF In, IInv, Typed
    <2> QED BY <1>1, <1>2, <2>1, VpcComesQuietly
<1>3. CASE In(vpcs, Region) = {} /\ VpcComes(a, "make", 0)
    BY <1>1, <1>3, VpcComesQuietly
<1>4. CASE VpcComes(a, "failed", 0)
    BY <1>1, <1>4, VpcComesQuietly
<1>5. CASE VpcThrows(a)
    BY <1>1, <1>5, ThrowQuietly
<1> QED BY <1>2, <1>3, <1>4, <1>5 DEF DescribeVpcs
(* A step that makes something keeps the others from being under way. *)
LEMMA OthersRest ==
    ASSUME IInv, NEW a \in Attempts, Up(attempt[a]), stirred' = stirred, overlapped' = overlapped
    PROVE  Calm' => Calm /\ \A b \in Attempts : b # a => ~Up(attempt[b])
BY DEF Calm, IInv, Orderly, Alone

(* The network that CreateVpc has made: for an attempt that goes on, or not. *)
LEMMA VpcMadeInv ==
    ASSUME IInv, NEW a \in Attempts, attempt[a].vpc.at = "make",
           vpcs' = Append(vpcs, Region), UNCHANGED <<zone, groups, nets, past>>,
           NEW rec, Set(a, rec), rec.vpc.at # "make",
           RecOK(rec, DOMAIN vpcs', nets, DOMAIN groups),
           Active(rec) => rec = [attempt[a] EXCEPT !.vpc = Lookup("got", Len(vpcs) + 1)]
    PROVE  IInv'
<1>1. UNCHANGED <<zone, groups, nets, refused, stirred, overlapped>> /\ Up(attempt[a])
    BY DEF past, Up
<1>2. /\ vpcs' \in Seq(Regions) /\ DOMAIN vpcs' = DOMAIN vpcs \cup {Len(vpcs) + 1}
      /\ vpcs'[Len(vpcs) + 1] = Region
      /\ \A i \in DOMAIN vpcs : vpcs'[i] = vpcs[i]
    BY OfAttempt, Appended DEF IInv, Typed
<1>3. Calm' => Calm /\ \A b \in Attempts : b # a => ~Up(attempt[b])
    BY <1>1, OthersRest
<1>4. ASSUME Calm PROVE Right(rec, zone, vpcs', groups', nets')
    <2>1. CASE Active(rec)
        <3>1. /\ rec.vpc.at = "got" /\ rec.vpc.id = Len(vpcs) + 1
              /\ rec.at = attempt[a].at /\ rec.name = attempt[a].name
              /\ rec.body = attempt[a].body
              /\ rec.net = attempt[a].net /\ rec.group = attempt[a].group
            BY <2>1, OfAttempt DEF Tries, Lookup
        <3>2. Right(attempt[a], zone, vpcs, groups, nets) /\ Active(attempt[a])
            BY <1>1, <1>4, <2>1, <3>1, OfAttempt DEF Active
        <3> QED BY <1>1, <1>2, <3>1, <3>2 DEF Right, Region
    <2> QED BY <2>1 DEF Right
<1>5. ASSUME Calm PROVE NetsFit(vpcs', nets') /\ Single(vpcs', groups', nets') /\ ~refused'
    <2>1. NetsFit(vpcs, nets) /\ Single(vpcs, groups, nets) /\ ~refused
          /\ In(vpcs, Region) = {}
        BY <1>1, <1>5, OfAttempt DEF IInv, Orderly, Right, Region
    <2>2. \A i, j \in DOMAIN vpcs' : vpcs'[i] = vpcs'[j] => i = j
        BY <2>1, OfAttempt, AppendedOnce DEF Single, IInv, Typed
    <2>3. NetsFit(vpcs', nets')
        BY <1>1, <1>2, <2>1 DEF NetsFit, IInv, Typed
    <2> QED BY <1>1, <2>1, <2>2, <2>3 DEF Single
<1>6. \A n \in nets' : n.vpc \in DOMAIN vpcs'
    BY <1>1, <1>2 DEF IInv, Typed
<1> QED BY <1>1, <1>2, <1>3, <1>4, <1>5, <1>6, StepInv DEF IInv, Typed

LEMMA CreateVpcInv == ASSUME NEW a \in Attempts PROVE IInv /\ CreateVpc(a) => IInv'
<1> SUFFICES ASSUME IInv, CreateVpc(a) PROVE IInv'
    OBVIOUS
<1>1. attempt[a].vpc.at = "make" /\ UNCHANGED <<zone, groups, nets, past>> /\ Up(attempt[a])
    BY DEF CreateVpc, Up
<1>2. ASSUME vpcs' = Append(vpcs, Region) PROVE /\ DOMAIN vpcs \subseteq DOMAIN vpcs'
                                                /\ Len(vpcs) + 1 \in DOMAIN vpcs' /\ Len(vpcs) + 1 \in Nat
    BY <1>2, OfAttempt, Appended DEF IInv, Typed
<1>3. CASE vpcs' = Append(vpcs, Region) /\ VpcComes(a, "got", Len(vpcs) + 1)
    <2> DEFINE rec == VpcRec(a, "got", Len(vpcs) + 1)
    <2>1. /\ RecOK(rec, DOMAIN vpcs', nets, DOMAIN groups) /\ rec.vpc.at # "make"
          /\ Active(rec) => rec = [attempt[a] EXCEPT !.vpc = Lookup("got", Len(vpcs) + 1)]
        BY <1>1, <1>2, <1>3, VpcRecOK
    <2>2. Set(a, rec)
        BY <1>3 DEF VpcComes, VpcRec
    <2> QED BY <1>1, <1>3, <2>1, <2>2, VpcMadeInv
<1>4. CASE vpcs' = Append(vpcs, Region) /\ VpcThrows(a)
    <2>1. RecOK(Ended(NotAsked.vpc), DOMAIN vpcs', nets, DOMAIN groups)
        BY <1>2, <1>4, QuitsAs
    <2>2. ~Active(Ended(NotAsked.vpc)) /\ Ended(NotAsked.vpc).vpc.at # "make"
        BY DEF Ended, NotAsked, Lookup, Active
    <2>3. Set(a, Ended(NotAsked.vpc))
        BY <1>4 DEF VpcThrows
    <2> QED BY <1>1, <1>4, <2>1, <2>2, <2>3, VpcMadeInv
<1>5. CASE UNCHANGED vpcs /\ VpcComes(a, "failed", 0)
    BY <1>1, <1>5, VpcComesQuietly DEF cloud
<1>6. CASE UNCHANGED vpcs /\ VpcThrows(a)
    BY <1>1, <1>6, ThrowQuietly DEF cloud
<1> QED BY <1>3, <1>4, <1>5, <1>6 DEF CreateVpc

LEMMA NetComesQuietly ==
    ASSUME IInv, NEW a \in Attempts, attempt[a].at = "looking",
           NEW at \in {"make", "got", "failed"}, NEW n \in nets \cup {NoNet},
           NetComes(a, at, n), UNCHANGED <<zone, cloud, past>>,
           at = "got" => n \in nets /\ n.zone = attempt[a].name,
           at = "make" => (Calm => \A m \in nets : m.zone # zone)
    PROVE  IInv'
<1> DEFINE rec == [attempt[a] EXCEPT !.net = Lookup(at, n)]
<1>1. Up(attempt[a]) /\ Set(a, rec)
    BY DEF Up, NetComes
<1>2. n \in Nets \cup {NoNet}
    BY DEF IInv, Typed
<1>3. RecOK(rec, DOMAIN vpcs, nets, DOMAIN groups)
    BY <1>2, OfAttempt DEF RecOK, Tries, Lookup, Looks
<1>4. ASSUME Calm PROVE Right(rec, zone, vpcs, groups, nets)
    <2>1. Right(attempt[a], zone, vpcs, groups, nets) /\ Active(attempt[a])
        BY <1>1, <1>4, OfAttempt DEF Active
    <2>2. /\ rec.vpc = attempt[a].vpc /\ rec.at = "looking"
          /\ rec.name = attempt[a].name /\ rec.group = attempt[a].group
          /\ rec.net.at = at /\ rec.net.id = n
        BY OfAttempt DEF Tries, Lookup
    <2> HIDE DEF rec
    <2> QED BY <1>4, <2>1, <2>2 DEF Right
<1> QED BY <1>1, <1>3, <1>4, QuietStep

LEMMA DescribeSubnetsInv == ASSUME NEW a \in Attempts PROVE IInv /\ DescribeSubnets(a) => IInv'
<1> SUFFICES ASSUME IInv, DescribeSubnets(a) PROVE IInv'
    OBVIOUS
<1> DEFINE found == {n \in nets : /\ n.idx = IdxOf[attempt[a].name]
                                  /\ n.zone = attempt[a].name
                                  /\ vpcs[n.vpc] = Region}
<1>1. attempt[a].at = "looking" /\ UNCHANGED <<zone, cloud, past>> /\ Up(attempt[a])
    BY DEF DescribeSubnets, Up
<1>2. ASSUME NEW n \in found, NetComes(a, "got", n) PROVE IInv'
    BY <1>1, <1>2, NetComesQuietly
<1>3. ASSUME found = {}, NetComes(a, "make", NoNet) PROVE IInv'
    <2>1. ASSUME Calm PROVE \A m \in nets : m.zone # zone
        <3>1. attempt[a].name = zone /\ NetsFit(vpcs, nets)
            BY <1>1, <2>1, OfAttempt DEF Right, Active, IInv, Orderly
        <3> QED BY <1>3, <3>1 DEF NetsFit, Region
    <2> QED BY <1>1, <1>3, <2>1, NetComesQuietly
<1>4. ASSUME NetComes(a, "failed", NoNet) PROVE IInv'
    BY <1>1, <1>4, NetComesQuietly
<1>5. ASSUME Stop(a) PROVE IInv'
    BY <1>1, <1>5, StopQuietly
<1> QED BY <1>2, <1>3, <1>4, <1>5 DEF DescribeSubnets

LEMMA GroupComesQuietly ==
    ASSUME IInv, NEW a \in Attempts, attempt[a].at = "looking",
           NEW at \in {"make", "got", "failed"}, NEW id \in DOMAIN groups \cup {0},
           GroupComes(a, at, id), UNCHANGED <<zone, cloud, past>>,
           at = "got" => id \in In(groups, Region),
           at = "make" => In(groups, Region) = {}
    PROVE  IInv'
<1> DEFINE rec == [attempt[a] EXCEPT !.group = Lookup(at, id)]
<1>1. Up(attempt[a]) /\ Set(a, rec)
    BY DEF Up, GroupComes
<1>2. id \in Nat /\ (at = "got" => id \in DOMAIN groups)
    BY IdsAreNumbers DEF IInv, Typed, In
<1>3. RecOK(rec, DOMAIN vpcs, nets, DOMAIN groups)
    BY <1>2, OfAttempt DEF RecOK, Tries, Lookup, Looks
<1>4. ASSUME Calm PROVE Right(rec, zone, vpcs, groups, nets)
    <2>1. Right(attempt[a], zone, vpcs, groups, nets) /\ Active(attempt[a])
        BY <1>1, <1>4, OfAttempt DEF Active
    <2>2. /\ rec.vpc = attempt[a].vpc /\ rec.at = "looking"
          /\ rec.name = attempt[a].name /\ rec.net = attempt[a].net
          /\ rec.group.at = at /\ rec.group.id = id
        BY OfAttempt DEF Tries, Lookup
    <2> HIDE DEF rec
    <2> QED BY <1>4, <2>1, <2>2 DEF Right, In, Region
<1> QED BY <1>1, <1>3, <1>4, QuietStep

LEMMA DescribeGroupsInv ==
    ASSUME NEW a \in Attempts PROVE IInv /\ DescribeSecurityGroups(a) => IInv'
<1> SUFFICES ASSUME IInv, DescribeSecurityGroups(a) PROVE IInv'
    OBVIOUS
<1>1. attempt[a].at = "looking" /\ UNCHANGED <<zone, cloud, past>> /\ Up(attempt[a])
    BY DEF DescribeSecurityGroups, Up
<1>2. ASSUME NEW i \in In(groups, Region), GroupComes(a, "got", i) PROVE IInv'
    <2>1. i \in DOMAIN groups
        BY DEF In
    <2> QED BY <1>1, <1>2, <2>1, GroupComesQuietly
<1>3. ASSUME In(groups, Region) = {}, GroupComes(a, "make", 0) PROVE IInv'
    BY <1>1, <1>3, GroupComesQuietly
<1>4. ASSUME GroupComes(a, "failed", 0) PROVE IInv'
    BY <1>1, <1>4, GroupComesQuietly
<1>5. ASSUME Stop(a) PROVE IInv'
    BY <1>1, <1>5, StopQuietly
<1> QED BY <1>2, <1>3, <1>4, <1>5 DEF DescribeSecurityGroups
LEMMA ComparedInv == ASSUME NEW a \in Attempts PROVE IInv /\ Compared(a) => IInv'
<1> SUFFICES ASSUME IInv, Compared(a) PROVE IInv'
    OBVIOUS
<1> DEFINE t == attempt[a]
           next == IF t.net.at = "make" THEN "subnet"
                   ELSE IF t.group.at = "make" THEN "group" ELSE "ready"
           rec == [t EXCEPT !.at = next, !.body = zone]
<1>1. /\ t.at = "looking" /\ UNCHANGED <<zone, cloud, past>> /\ Up(t)
      /\ "ask" \notin {t.vpc.at, t.net.at, t.group.at} /\ t.vpc.at # "make"
    BY DEF Compared, Up
<1>2. CASE Stop(a)
    BY <1>1, <1>2, StopQuietly
<1>3. CASE "failed" \notin {t.vpc.at, t.net.at, t.group.at} /\ Set(a, rec)
    <2>1. /\ t.vpc.at = "got" /\ t.net.at \in {"make", "got"} /\ t.group.at \in {"make", "got"}
        BY <1>1, <1>3, OfAttempt DEF RecOK, Tries, Looks
    <2>2. /\ rec \in Tries /\ rec.at = next /\ rec.body = zone /\ rec.name = t.name
          /\ rec.vpc = t.vpc /\ rec.net = t.net /\ rec.group = t.group
        BY OfAttempt DEF Tries, Steps
    <2> HIDE DEF rec
    <2>3. RecOK(rec, DOMAIN vpcs, nets, DOMAIN groups)
        BY <2>1, <2>2, OfAttempt DEF RecOK
    <2>4. ASSUME Calm PROVE Right(rec, zone, vpcs, groups, nets)
        <3>1. Right(t, zone, vpcs, groups, nets) /\ Active(t)
            BY <1>1, <2>4, OfAttempt DEF Active
        <3> QED BY <2>2, <3>1 DEF Right
    <2> QED BY <1>1, <1>3, <2>3, <2>4, QuietStep
<1> QED BY <1>2, <1>3 DEF Compared

LEMMA GetParamsInv == ASSUME NEW a \in Attempts PROVE IInv /\ GetParams(a) => IInv'
<1> SUFFICES ASSUME IInv, GetParams(a) PROVE IInv'
    OBVIOUS
<1> DEFINE rec == [attempt[a] EXCEPT !.at = "run", !.body = zone]
<1>1. /\ attempt[a].at = "ready" /\ UNCHANGED <<zone, cloud, past>> /\ Up(attempt[a])
      /\ Set(a, rec)
    BY DEF GetParams, Up
<1>2. /\ rec \in Tries /\ rec.at = "run" /\ rec.body = zone /\ rec.name = attempt[a].name
      /\ rec.vpc = attempt[a].vpc /\ rec.net = attempt[a].net /\ rec.group = attempt[a].group
    BY OfAttempt DEF Tries, Steps
<1> HIDE DEF rec
<1>3. RecOK(rec, DOMAIN vpcs, nets, DOMAIN groups)
    BY <1>1, <1>2, OfAttempt DEF RecOK
<1>4. ASSUME Calm PROVE Right(rec, zone, vpcs, groups, nets)
    <2>1. Right(attempt[a], zone, vpcs, groups, nets) /\ Active(attempt[a])
        BY <1>1, <1>4, OfAttempt DEF Active
    <2> QED BY <1>2, <2>1 DEF Right
<1> QED BY <1>1, <1>3, <1>4, QuietStep

(* In a calm run the subnet wanted fits. *)
LEMMA WantedFits ==
    ASSUME IInv, Calm, NEW a \in Attempts, attempt[a].at = "subnet"
    PROVE  NetFits(Wanted(a)) /\ (\A n \in nets : n.zone # zone) /\ attempt[a].body = zone
<1> DEFINE t == attempt[a]
<1>1. /\ RecOK(t, DOMAIN vpcs, nets, DOMAIN groups)
      /\ Right(t, zone, vpcs, groups, nets) /\ NetsFit(vpcs, nets)
    BY OfAttempt DEF Up, IInv, Orderly
<1>2. t.name = zone /\ t.body = zone /\ vpcs[t.vpc.id] = Region /\ \A n \in nets : n.zone # zone
    BY <1>1 DEF RecOK, Right, Active, Region
<1>3. /\ Wanted(a).vpc = t.vpc.id /\ Wanted(a).zone = zone /\ Wanted(a).idx = IdxOf[zone]
    BY <1>2 DEF Wanted
<1>4. \A m \in nets : <<m.vpc, m.idx>> # <<Wanted(a).vpc, Wanted(a).idx>>
    <2> SUFFICES ASSUME NEW m \in nets, m.vpc = t.vpc.id, m.idx = IdxOf[zone] PROVE FALSE
        BY <1>3
    <2>1. RegionOf[m.zone] = RegionOf[zone] /\ IdxOf[m.zone] = IdxOf[zone] /\ m.zone \in Zones
        BY <1>1, <1>2 DEF NetsFit, Region, IInv, Typed, Nets
    <2> QED BY <1>2, <2>1, OfAttempt, ZonesAssumption
<1> QED BY <1>2, <1>3, <1>4 DEF NetFits, Region

(* The subnet is made; the attempt goes on with it or ends. *)
LEMMA NetMadeInv ==
    ASSUME IInv, NEW a \in Attempts, attempt[a].at = "subnet",
           nets' = nets \cup {Wanted(a)}, UNCHANGED <<zone, vpcs, groups, past>>,
           NEW rec, Set(a, rec), RecOK(rec, DOMAIN vpcs, nets', DOMAIN groups),
           rec.vpc.at # "make",
           Active(rec) =>
              rec = [attempt[a] EXCEPT
                        !.net = Lookup("got", Wanted(a)),
                        !.at = IF attempt[a].group.at = "make" THEN "group" ELSE "ready"]
    PROVE  IInv'
<1>1. UNCHANGED <<zone, vpcs, groups, refused, stirred, overlapped>> /\ Up(attempt[a])
    BY DEF past, Up
<1>2. /\ Wanted(a) \in Nets /\ Wanted(a).vpc \in DOMAIN vpcs
      /\ Wanted(a).vpc = attempt[a].vpc.id
      /\ Wanted(a).zone = attempt[a].body /\ Wanted(a).idx = IdxOf[attempt[a].name]
    <2>1. /\ attempt[a].vpc.id \in DOMAIN vpcs /\ attempt[a].vpc.id \in Nat
          /\ attempt[a].name \in Zones /\ attempt[a].body \in Zones
        BY OfAttempt DEF RecOK, Tries
    <2> QED BY <2>1, ZonesAssumption DEF Wanted, Nets
<1>3. Calm' => Calm /\ \A b \in Attempts : b # a => ~Up(attempt[b])
    BY <1>1, OthersRest
<1>4. ASSUME Calm PROVE Right(rec, zone, vpcs', groups', nets')
    <2>1. CASE Active(rec)
        <3>0. PICK at : rec = [attempt[a] EXCEPT !.net = Lookup("got", Wanted(a)), !.at = at]
            BY <2>1, Zenon
        <3>1. /\ rec.net.at = "got" /\ rec.net.id = Wanted(a) /\ rec.name = attempt[a].name
              /\ rec.body = attempt[a].body
              /\ rec.vpc = attempt[a].vpc /\ rec.group = attempt[a].group
            <4>1. attempt[a] \in Tries
                BY OfAttempt
            <4> HIDE DEF Wanted
            <4> QED BY <3>0, <4>1 DEF Tries, Lookup
        <3>2. Right(attempt[a], zone, vpcs, groups, nets) /\ Active(attempt[a])
              /\ attempt[a].body = zone
            BY <1>1, <1>4, OfAttempt, WantedFits DEF Active
        <3> QED BY <1>1, <1>2, <3>1, <3>2 DEF Right
    <2> QED BY <2>1 DEF Right
<1>5. ASSUME Calm PROVE NetsFit(vpcs', nets') /\ Single(vpcs', groups', nets') /\ ~refused'
    <2>1. NetsFit(vpcs, nets) /\ Single(vpcs, groups, nets) /\ ~refused
        BY <1>5 DEF IInv, Orderly
    <2>2. /\ \A n \in nets : n.zone # zone
          /\ Wanted(a).zone = zone /\ vpcs[Wanted(a).vpc] = Region
        BY <1>2, <1>5, WantedFits DEF NetFits
    <2>3. attempt[a].name = zone
        BY <1>1, <1>5, OfAttempt DEF Right, Active
    <2>4. NetsFit(vpcs', nets')
        BY <1>1, <1>2, <2>1, <2>2, <2>3 DEF NetsFit, Region
    <2>5. Single(vpcs', groups', nets')
        BY <1>1, <2>1, <2>2 DEF Single
    <2> QED BY <1>1, <2>1, <2>4, <2>5
<1>6. /\ nets \subseteq nets' /\ nets' \subseteq Nets
      /\ \A n \in nets' : n.vpc \in DOMAIN vpcs'
    BY <1>1, <1>2 DEF IInv, Typed
<1> QED BY <1>1, <1>3, <1>4, <1>5, <1>6, StepInv DEF IInv, Typed

LEMMA CreateSubnetInv == ASSUME NEW a \in Attempts PROVE IInv /\ CreateSubnet(a) => IInv'
<1> SUFFICES ASSUME IInv, CreateSubnet(a) PROVE IInv'
    OBVIOUS
<1> DEFINE next == IF attempt[a].group.at = "make" THEN "group" ELSE "ready"
           rec == [attempt[a] EXCEPT !.net = Lookup("got", Wanted(a)), !.at = next]
           end == Ended(IF Loading(a) THEN attempt[a].vpc ELSE NotAsked.vpc)
<1>1. /\ attempt[a].at = "subnet" /\ Up(attempt[a]) /\ attempt[a].vpc.at = "got"
      /\ UNCHANGED <<zone, vpcs, groups, stirred, overlapped>>
    BY OfAttempt DEF CreateSubnet, Up, RecOK
<1>2. ~Active(end) /\ end.vpc.at # "make"
    BY <1>1, QuitsAs
<1>3. CASE nets' = nets \cup {Wanted(a)} /\ UNCHANGED refused /\ Set(a, rec)
    <2>1. Wanted(a) \in Nets
        <3>1. /\ attempt[a].vpc.id \in Nat
              /\ attempt[a].name \in Zones /\ attempt[a].body \in Zones
            BY OfAttempt DEF RecOK, Tries
        <3> QED BY <3>1, ZonesAssumption DEF Wanted, Nets
    <2>2. /\ rec \in Tries /\ rec.at = next /\ rec.vpc = attempt[a].vpc
          /\ rec.group = attempt[a].group /\ rec.net.at = "got" /\ rec.net.id = Wanted(a)
        <3>1. attempt[a] \in Tries
            BY OfAttempt
        <3>2. next \in Steps
            BY DEF Steps
        <3> HIDE DEF next
        <3> QED BY <2>1, <3>1, <3>2 DEF Tries, Looks, Lookup
    <2>3. RecOK(rec, DOMAIN vpcs, nets', DOMAIN groups)
        <3>1. RecOK(attempt[a], DOMAIN vpcs, nets, DOMAIN groups)
            BY OfAttempt
        <3>2. /\ attempt[a].vpc.id \in DOMAIN vpcs
              /\ attempt[a].group.id \in DOMAIN groups \cup {0}
              /\ attempt[a].group.at \in {"make", "got"}
              /\ attempt[a].group.at = "got" => attempt[a].group.id \in DOMAIN groups
            BY <1>1, <3>1 DEF RecOK
        <3>3. Wanted(a) \in nets'
            BY <1>3
        <3> HIDE DEF rec
        <3>4. rec.at \in {"group", "ready"} /\ (rec.at = "group" <=> attempt[a].group.at = "make")
            BY <2>2
        <3> HIDE DEF next
        <3> QED BY <1>1, <2>2, <3>2, <3>3, <3>4 DEF RecOK
    <2> QED BY <1>1, <1>3, <2>2, <2>3, NetMadeInv DEF past
<1>4. CASE nets' = nets \cup {Wanted(a)} /\ UNCHANGED refused /\ Stop(a)
    <2>1. RecOK(end, DOMAIN vpcs, nets', DOMAIN groups)
        BY QuitsAs
    <2>2. Set(a, end)
        BY <1>4 DEF Stop
    <2> QED BY <1>1, <1>2, <1>4, <2>1, <2>2, NetMadeInv DEF past
<1>5. CASE UNCHANGED nets /\ Stop(a) /\ refused' = (refused \/ ~NetFits(Wanted(a)))
    <2>1. RecOK(end, DOMAIN vpcs, nets, DOMAIN groups)
        BY QuitsAs
    <2>2. Set(a, end)
        BY <1>5 DEF Stop
    <2>3. Calm' => Calm /\ \A b \in Attempts : b # a => ~Up(attempt[b])
        BY <1>1, OthersRest
    <2>4. Right(end, zone, vpcs', groups', nets')
        BY <1>2 DEF Right
    <2>5. Calm => ~refused' /\ NetsFit(vpcs', nets') /\ Single(vpcs', groups', nets')
        BY <1>1, <1>5, WantedFits DEF IInv, Orderly
    <2>6. refused' \in BOOLEAN /\ overlapped' \in BOOLEAN
        BY <1>1, <1>5 DEF IInv, Typed
    <2> QED BY <1>1, <1>5, <2>1, <2>2, <2>3, <2>4, <2>5, <2>6, StepInv DEF IInv, Typed
<1> QED BY <1>3, <1>4, <1>5 DEF CreateSubnet
LEMMA CreateGroupInv == ASSUME NEW a \in Attempts PROVE IInv /\ CreateSecurityGroup(a) => IInv'
<1> SUFFICES ASSUME IInv, CreateSecurityGroup(a) PROVE IInv'
    OBVIOUS
<1> DEFINE rec == [attempt[a] EXCEPT !.group = Lookup("got", Len(groups) + 1), !.at = "ready"]
           end == Ended(IF Loading(a) THEN attempt[a].vpc ELSE NotAsked.vpc)
<1>1. /\ attempt[a].at = "group" /\ Up(attempt[a]) /\ UNCHANGED <<zone, vpcs, nets, past>>
      /\ RecOK(attempt[a], DOMAIN vpcs, nets, DOMAIN groups)
    BY OfAttempt DEF CreateSecurityGroup, Up
<1>2. UNCHANGED <<zone, vpcs, nets, refused, stirred, overlapped>>
    BY <1>1 DEF past
<1>3. attempt[a].vpc.at = "got" /\ attempt[a].net.at = "got" /\ attempt[a].group.at = "make"
    BY <1>1 DEF RecOK
<1>4. ~Active(end) /\ end.vpc.at # "make"
    BY <1>3, QuitsAs
<1>5. CASE UNCHANGED groups /\ Stop(a)
    BY <1>1, <1>5, StopQuietly DEF cloud
<1>6. CASE groups' = Append(groups, Region)
    <2>1. /\ groups' \in Seq(Regions) /\ DOMAIN groups' = DOMAIN groups \cup {Len(groups) + 1}
          /\ groups'[Len(groups) + 1] = Region /\ Len(groups) + 1 \in Nat
          /\ \A i \in DOMAIN groups : groups'[i] = groups[i]
        BY <1>6, OfAttempt, Appended DEF IInv, Typed
    <2>2. Calm' => Calm /\ \A b \in Attempts : b # a => ~Up(attempt[b])
        BY <1>1, <1>2, OthersRest
    <2>3. ASSUME Calm
          PROVE  NetsFit(vpcs', nets') /\ Single(vpcs', groups', nets') /\ ~refused'
        <3>1. /\ NetsFit(vpcs, nets) /\ Single(vpcs, groups, nets) /\ ~refused
              /\ In(groups, Region) = {}
            BY <1>1, <1>3, <2>3, OfAttempt DEF IInv, Orderly, Right, Active, Region
        <3>2. \A i, j \in DOMAIN groups' : groups'[i] = groups'[j] => i = j
            BY <1>6, <3>1, OfAttempt, AppendedOnce DEF Single, IInv, Typed
        <3> QED BY <1>2, <3>1, <3>2 DEF Single
    <2>4. ASSUME NEW r, Set(a, r), RecOK(r, DOMAIN vpcs, nets, DOMAIN groups'),
                 Calm => Right(r, zone, vpcs, groups', nets)
          PROVE  IInv'
        BY <1>2, <2>1, <2>2, <2>3, <2>4, StepInv DEF IInv, Typed
    <2>5. CASE Set(a, rec)
        <3>1. /\ rec \in Tries /\ rec.at = "ready" /\ rec.vpc = attempt[a].vpc
              /\ rec.name = attempt[a].name /\ rec.body = attempt[a].body
              /\ rec.net = attempt[a].net
              /\ rec.group.at = "got" /\ rec.group.id = Len(groups) + 1
            <4>1. attempt[a] \in Tries /\ Len(groups) + 1 \in Nat
                BY <2>1, OfAttempt
            <4>2. PICK n \in Nat : n = Len(groups) + 1
                BY <4>1
            <4>3. rec = [attempt[a] EXCEPT !.group = Lookup("got", n), !.at = "ready"]
                BY <4>2, Zenon
            <4> HIDE DEF rec
            <4>4. /\ rec \in Tries /\ rec.at = "ready" /\ rec.vpc = attempt[a].vpc
                  /\ rec.name = attempt[a].name /\ rec.body = attempt[a].body
                  /\ rec.net = attempt[a].net /\ rec.group.at = "got" /\ rec.group.id = n
                BY <4>1, <4>3 DEF Tries, Steps, Looks, Lookup
            <4> QED BY <4>2, <4>4
        <3> HIDE DEF rec
        <3>2. RecOK(rec, DOMAIN vpcs, nets, DOMAIN groups')
            BY <1>1, <1>3, <2>1, <3>1 DEF RecOK
        <3>3. ASSUME Calm PROVE Right(rec, zone, vpcs, groups', nets)
            <4>1. Right(attempt[a], zone, vpcs, groups, nets) /\ Active(attempt[a])
                BY <1>1, <3>3, OfAttempt DEF Active
            <4> QED BY <1>1, <1>3, <2>1, <3>1, <4>1 DEF Right, Region
        <3> QED BY <2>4, <2>5, <3>2, <3>3
    <2>6. CASE Stop(a)
        <3>1. RecOK(end, DOMAIN vpcs, nets, DOMAIN groups')
            BY QuitsAs
        <3>2. Right(end, zone, vpcs, groups', nets)
            BY <1>4 DEF Right
        <3>3. Set(a, end)
            BY <2>6 DEF Stop
        <3> HIDE DEF end
        <3> QED BY <2>4, <3>1, <3>2, <3>3
    <2> QED BY <1>1, <1>5, <1>6, <2>5, <2>6 DEF CreateSecurityGroup
<1> QED BY <1>5, <1>6 DEF CreateSecurityGroup

LEMMA RunInv == ASSUME NEW a \in Attempts PROVE IInv /\ RunInstances(a) => IInv'
<1> SUFFICES ASSUME IInv, RunInstances(a) PROVE IInv'
    OBVIOUS
<1> DEFINE t == attempt[a]
           end == Ended(IF Loading(a) THEN t.vpc ELSE NotAsked.vpc)
<1>1. /\ t.at = "run" /\ Up(t) /\ UNCHANGED <<zone, vpcs, groups, nets, stirred, overlapped>>
      /\ Set(a, end) /\ refused' = (refused \/ ~HostFits(t))
      /\ RecOK(t, DOMAIN vpcs, nets, DOMAIN groups)
    BY OfAttempt DEF RunInstances, Stop, Up, cloud
<1>2. t.vpc.at = "got" /\ t.net.at = "got" /\ t.group.at = "got"
    BY <1>1 DEF RecOK
<1>3. ~Active(end) /\ end.vpc.at # "make" /\ RecOK(end, DOMAIN vpcs, nets, DOMAIN groups)
    BY <1>2, QuitsAs
<1>4. Calm' => Calm /\ \A b \in Attempts : b # a => ~Up(attempt[b])
    BY <1>1, OthersRest
<1>5. ASSUME Calm PROVE HostFits(t)
    <2>1. /\ Right(t, zone, vpcs, groups, nets)
          /\ NetsFit(vpcs, nets) /\ Single(vpcs, groups, nets)
        BY <1>1, <1>5, OfAttempt DEF IInv, Orderly
    <2>2. /\ t.body = zone /\ vpcs[t.vpc.id] = Region /\ groups[t.group.id] = Region
          /\ t.net.id.zone = zone
        BY <1>1, <1>2, <2>1 DEF Right, Active, Region
    <2>3. t.net.id \in nets /\ t.vpc.id \in DOMAIN vpcs
        BY <1>1, <1>2 DEF RecOK
    <2>4. vpcs[t.net.id.vpc] = Region /\ t.net.id.vpc \in DOMAIN vpcs
        BY <2>1, <2>2, <2>3 DEF NetsFit, Region, IInv, Typed
    <2>5. t.net.id.vpc = t.vpc.id
        BY <2>1, <2>2, <2>3, <2>4 DEF Single
    <2> QED BY <2>2, <2>5 DEF HostFits, Region
<1>6. Calm => ~refused' /\ NetsFit(vpcs', nets') /\ Single(vpcs', groups', nets')
    BY <1>1, <1>5 DEF IInv, Orderly
<1>7. Right(end, zone, vpcs', groups', nets')
    BY <1>3 DEF Right
<1>8. refused' \in BOOLEAN /\ overlapped' \in BOOLEAN
    BY <1>1 DEF IInv, Typed
<1> HIDE DEF end
<1> QED BY <1>1, <1>3, <1>4, <1>6, <1>7, <1>8, StepInv DEF IInv, Typed

-----------------------------------------------------------------------------
THEOREM CloudDepsInv == Spec => []IInv
<1>1. Init => IInv
    <2> SUFFICES ASSUME Init PROVE IInv
        OBVIOUS
    <2>1. \A a \in Attempts : RecOK(attempt[a], DOMAIN vpcs, nets, DOMAIN groups)
                              /\ ~Up(attempt[a])
        BY NotAskedOK DEF Init
    <2>2. vpcs \in Seq(Regions) /\ groups \in Seq(Regions) /\ DOMAIN vpcs = {} /\ DOMAIN groups = {}
        BY DEF Init
    <2>3. Typed
        BY <2>1, <2>2 DEF Init, Typed
    <2>4. Orderly
        BY <2>1, <2>2 DEF Init, Orderly, Alone, NetsFit, Single
    <2> QED BY <2>3, <2>4 DEF IInv
<1>2. IInv /\ [Next]_vars => IInv'
    <2>1. IInv /\ UNCHANGED vars => IInv'
        <3> SUFFICES ASSUME IInv, UNCHANGED vars PROVE IInv'
            OBVIOUS
        <3>1. UNCHANGED <<zone, attempt, vpcs, groups, nets, refused, stirred, overlapped>>
            BY DEF vars, cloud, past
        <3> QED BY <3>1 DEF IInv, Typed, Orderly, Alone, Calm
    <2> QED BY <2>1, SaveZoneInv, StartInv, DescribeVpcsInv, CreateVpcInv, DescribeSubnetsInv,
               DescribeGroupsInv, ComparedInv, CreateSubnetInv, CreateGroupInv, GetParamsInv,
               RunInv DEF Next, Step
<1> QED BY <1>1, <1>2, PTL DEF Spec

(* TypeOK: no subnet is asked for without a network, no host without the   *)
(* three, and every id names something there is.                           *)
THEOREM CloudDepsTypes == Spec => []TypeOK
<1>1. IInv => TypeOK
    <2> SUFFICES ASSUME IInv PROVE TypeOK
        OBVIOUS
    <2>1. ASSUME NEW a \in Attempts
          PROVE  LET t == attempt[a] IN
                 /\ t.at \in {"idle", "looking", "subnet", "group", "ready", "run", "over"}
                 /\ t.name \in Zones /\ t.body \in Zones
                 /\ t.vpc.id \in DOMAIN vpcs \cup {0} /\ t.net.id \in nets \cup {NoNet}
                 /\ t.group.id \in DOMAIN groups \cup {0}
                 /\ t.at \in {"subnet", "group", "ready", "run"} => t.vpc.id # 0
                 /\ t.at \in {"group", "ready", "run"} => t.net.id # NoNet
                 /\ t.at \in {"ready", "run"} => t.group.id # 0
        <3>1. RecOK(attempt[a], DOMAIN vpcs, nets, DOMAIN groups)
            BY OfAttempt
        <3>2. 0 \notin DOMAIN vpcs /\ 0 \notin DOMAIN groups /\ NoNet \notin nets
            BY IdsAreNumbers, NoNetAssumption DEF IInv, Typed, Nets
        <3> QED BY <3>1, <3>2 DEF RecOK, Tries, Steps
    <2>2. \A n \in nets : n.vpc \in DOMAIN vpcs /\ n.zone \in Zones /\ n.idx \in Nat
        BY DEF IInv, Typed, Nets
    <2> QED BY <2>1, <2>2 DEF IInv, Typed, TypeOK
<1> QED BY <1>1, CloudDepsInv, PTL

(* NoneTwice: attempts that follow one another make no network, group or   *)
(* subnet a second time, wherever the earlier ones failed.                 *)
THEOREM CloudDepsOnce == Spec => []NoneTwice
<1>1. IInv => NoneTwice
    BY DEF IInv, Orderly, Single, NoneTwice
<1> QED BY <1>1, CloudDepsInv, PTL

(* NothingInTheWay: and what they left never makes the cloud refuse a      *)
(* later subnet or host.                                                   *)
THEOREM CloudDepsFit == Spec => []NothingInTheWay
<1>1. IInv => NothingInTheWay
    BY DEF IInv, Orderly, NothingInTheWay
<1> QED BY <1>1, CloudDepsInv, PTL
=============================================================================
