------------------------------ MODULE CloudDeps ------------------------------
(***************************************************************************)
(* What a host needs in the cloud before it can be bought: a network (VPC) *)
(* and a security group for the region, a subnet for the zone.  An attempt *)
(* to create a host (src/service/instance.ts, then CreateInstance of       *)
(* src/service/tencent.ts) looks for the three at once and makes those     *)
(* that are missing; what it made stays when it fails, and the next one    *)
(* finds it by its name.                                                   *)
(*                                                                         *)
(* The cloud does what it is asked at one moment, with the region that     *)
(* globalSettings has when the request leaves, and the answer may be an    *)
(* error or get lost on the way.  The zone in the body of a request is     *)
(* read before that.  Every resource has the one name the settings give,   *)
(* which the user does not change here.  Zone and image are set: without   *)
(* them an attempt ends before it asks for anything.                       *)
(***************************************************************************)
EXTENDS Naturals, Sequences

CONSTANTS
    Zones,      \* the zones the user may have in the settings
    RegionOf,   \* the region of each zone
    IdxOf,      \* the number a zone's name ends with
    Attempts,   \* bound: the calls of createGlobalInst
    NoNet       \* no subnet

Regions == {RegionOf[z] : z \in Zones}

ASSUME ZonesAssumption ==
    /\ RegionOf \in [Zones -> Regions] /\ IdxOf \in [Zones -> Nat]
    /\ \A y, z \in Zones : RegionOf[y] = RegionOf[z] /\ IdxOf[y] = IdxOf[z] => y = z
ASSUME NoNetAssumption == NoNet \notin [vpc : Nat, zone : Zones, idx : Nat]

VARIABLES
    zone,           \* globalSettings.zone; its region is globalSettings.region
    attempt,        \* the attempts and the loadVpc each has started
    vpcs, groups,   \* the networks and groups made, each by its region
    nets,           \* the subnets made
    refused,        \* the cloud refused what does not fit together
    stirred,        \* the zone was changed while an attempt was under way
    overlapped      \* an attempt began while another was under way

cloud == <<vpcs, groups, nets>>
past  == <<refused, stirred, overlapped>>
vars  == <<zone, attempt, cloud, past>>

Region == RegionOf[zone]

(* The ids are the places in vpcs and groups; 0 is none. *)
In(list, r) == {i \in DOMAIN list : list[i] = r}

Lookup(at, id) == [at |-> at, id |-> id]
NotAsked == [at |-> "idle", name |-> CHOOSE z \in Zones : TRUE,
             body |-> CHOOSE z \in Zones : TRUE,
             vpc |-> Lookup("idle", 0), net |-> Lookup("idle", NoNet),
             group |-> Lookup("idle", 0)]

(* An attempt that has ended may have left its loadVpc behind.             *)
Loading(a)  == attempt[a].vpc.at \in {"ask", "make"}
Underway(a) == attempt[a].at \notin {"idle", "over"} \/ Loading(a)

Set(a, rec) == attempt' = [attempt EXCEPT ![a] = rec]
Ended(vpc)  == [NotAsked EXCEPT !.at = "over", !.vpc = vpc]
Stop(a)     == Set(a, Ended(IF Loading(a) THEN attempt[a].vpc ELSE NotAsked.vpc))

(* A call comes back with a result or an error ([err]), or it throws,      *)
(* which rejects Promise.all at once.  What loadVpc brings when the        *)
(* attempt is over is not looked at.                                       *)
VpcComes(a, at, id) ==
    Set(a, IF attempt[a].at = "over" /\ at # "make" THEN Ended(NotAsked.vpc)
           ELSE [attempt[a] EXCEPT !.vpc = Lookup(at, id)])
NetComes(a, at, n)    == Set(a, [attempt[a] EXCEPT !.net = Lookup(at, n)])
GroupComes(a, at, id) == Set(a, [attempt[a] EXCEPT !.group = Lookup(at, id)])
VpcThrows(a)          == Set(a, Ended(NotAsked.vpc))

-----------------------------------------------------------------------------
(* Another zone is saved; bound: no more once it was under an attempt.     *)
SaveZone == \E z \in Zones \ {zone} :
    /\ ~stirred
    /\ zone' = z
    /\ stirred' = (stirred \/ \E a \in Attempts : Underway(a))
    /\ UNCHANGED <<attempt, cloud, refused, overlapped>>

(* loadInstanceDependentResources up to Promise.all; bound: none begins    *)
(* after one that overlapped.                                              *)
Start(a) ==
    /\ attempt[a].at = "idle" /\ ~overlapped
    /\ Set(a, [NotAsked EXCEPT !.at = "looking", !.name = zone,
                 !.vpc = Lookup("ask", 0), !.net = Lookup("ask", NoNet),
                 !.group = Lookup("ask", 0)])
    /\ overlapped' = (overlapped \/ \E b \in Attempts : Underway(b))
    /\ UNCHANGED <<zone, cloud, refused, stirred>>

(* Mutant: an error is taken for a network that is not there. *)
MadeOnError(a) ==
    /\ attempt[a].vpc.at = "ask"
    /\ \/ \E i \in In(vpcs, Region) : VpcComes(a, "got", i)
       \/ VpcComes(a, "make", 0)
       \/ VpcThrows(a)
    /\ UNCHANGED <<zone, cloud, past>>

(* loadVpc, which nothing stops when the attempt is over. *)
DescribeVpcs(a) ==
    /\ attempt[a].vpc.at = "ask"
    /\ \/ \E i \in In(vpcs, Region) : VpcComes(a, "got", i)
       \/ In(vpcs, Region) = {} /\ VpcComes(a, "make", 0)
       \/ VpcComes(a, "failed", 0)
       \/ VpcThrows(a)
    /\ UNCHANGED <<zone, cloud, past>>

CreateVpc(a) ==
    /\ attempt[a].vpc.at = "make"
    /\ \/ /\ vpcs' = Append(vpcs, Region)
          /\ \/ VpcComes(a, "got", Len(vpcs) + 1)
             \/ VpcThrows(a)
       \/ /\ UNCHANGED vpcs
          /\ \/ VpcComes(a, "failed", 0)
             \/ VpcThrows(a)
    /\ UNCHANGED <<zone, groups, nets, past>>

(* By name and zone, in any network of the region. *)
DescribeSubnets(a) ==
    /\ attempt[a].at = "looking" /\ attempt[a].net.at = "ask"
    /\ LET found == {n \in nets : /\ n.idx = IdxOf[attempt[a].name]
                                  /\ n.zone = attempt[a].name
                                  /\ vpcs[n.vpc] = Region}
       IN  \/ \E n \in found : NetComes(a, "got", n)
           \/ found = {} /\ NetComes(a, "make", NoNet)
           \/ NetComes(a, "failed", NoNet)
           \/ Stop(a)
    /\ UNCHANGED <<zone, cloud, past>>

DescribeSecurityGroups(a) ==
    /\ attempt[a].at = "looking" /\ attempt[a].group.at = "ask"
    /\ \/ \E i \in In(groups, Region) : GroupComes(a, "got", i)
       \/ In(groups, Region) = {} /\ GroupComes(a, "make", 0)
       \/ GroupComes(a, "failed", 0)
       \/ Stop(a)
    /\ UNCHANGED <<zone, cloud, past>>

(* Mutant: a network that was not found or made does not end the attempt. *)
ComparedWithoutVpc(a) ==
    LET t == attempt[a] IN
    /\ t.at = "looking"
    /\ "ask" \notin {t.vpc.at, t.net.at, t.group.at} /\ t.vpc.at # "make"
    /\ IF "failed" \in {t.net.at, t.group.at} THEN Stop(a)
       ELSE Set(a, [t EXCEPT !.at = IF t.net.at = "make" THEN "subnet"
                                    ELSE IF t.group.at = "make" THEN "group"
                                    ELSE "ready",
                             !.body = zone])
    /\ UNCHANGED <<zone, cloud, past>>

(* All three have come back. *)
Compared(a) ==
    LET t == attempt[a] IN
    /\ t.at = "looking"
    /\ "ask" \notin {t.vpc.at, t.net.at, t.group.at} /\ t.vpc.at # "make"
    /\ IF "failed" \in {t.vpc.at, t.net.at, t.group.at} THEN Stop(a)
       ELSE Set(a, [t EXCEPT !.at = IF t.net.at = "make" THEN "subnet"
                                    ELSE IF t.group.at = "make" THEN "group"
                                    ELSE "ready",
                             !.body = zone])
    /\ UNCHANGED <<zone, cloud, past>>

(* Mutant: every subnet gets the same addresses. *)
WantedAlike(a) == [vpc |-> attempt[a].vpc.id, zone |-> attempt[a].body, idx |-> 1]

(* The zone is the one of the settings by then, the name and the addresses *)
(* 10.idx.0.0/16 are those of the zone the attempt began with.             *)
Wanted(a) == [vpc |-> attempt[a].vpc.id, zone |-> attempt[a].body,
              idx |-> IdxOf[attempt[a].name]]

(* The network is in the region asked, so is the zone, and no subnet of    *)
(* the network has these addresses.                                        *)
NetFits(n) ==
    /\ vpcs[n.vpc] = Region /\ RegionOf[n.zone] = Region
    /\ \A m \in nets : <<m.vpc, m.idx>> # <<n.vpc, n.idx>>

CreateSubnet(a) ==
    /\ attempt[a].at = "subnet"
    /\ LET n == Wanted(a) IN
       \/ /\ NetFits(n)
          /\ nets' = nets \cup {n}
          /\ \/ Set(a, [attempt[a] EXCEPT
                   !.net = Lookup("got", n),
                   !.at = IF attempt[a].group.at = "make" THEN "group" ELSE "ready"])
             \/ Stop(a)
          /\ UNCHANGED refused
       \/ UNCHANGED nets /\ Stop(a) /\ refused' = (refused \/ ~NetFits(n))
    /\ UNCHANGED <<zone, vpcs, groups, stirred, overlapped>>

CreateSecurityGroup(a) ==
    /\ attempt[a].at = "group"
    /\ \/ /\ groups' = Append(groups, Region)
          /\ \/ Set(a, [attempt[a] EXCEPT !.group = Lookup("got", Len(groups) + 1),
                                          !.at = "ready"])
             \/ Stop(a)
       \/ UNCHANGED groups /\ Stop(a)
    /\ UNCHANGED <<zone, vpcs, nets, past>>

(* CreateInstance: the script is ready, the zone is read again. *)
GetParams(a) ==
    /\ attempt[a].at = "ready"
    /\ Set(a, [attempt[a] EXCEPT !.at = "run", !.body = zone])
    /\ UNCHANGED <<zone, cloud, past>>

HostFits(t) ==
    /\ RegionOf[t.body] = Region
    /\ vpcs[t.vpc.id] = Region /\ groups[t.group.id] = Region
    /\ t.net.id.vpc = t.vpc.id /\ t.net.id.zone = t.body

(* Whether a host is bought or not (sold out, no money, an answer lost),   *)
(* the attempt is over.                                                    *)
RunInstances(a) ==
    /\ attempt[a].at = "run"
    /\ Stop(a)
    /\ refused' = (refused \/ ~HostFits(attempt[a]))
    /\ UNCHANGED <<zone, cloud, stirred, overlapped>>
-----------------------------------------------------------------------------
Init ==
    /\ zone \in Zones
    /\ attempt = [a \in Attempts |-> NotAsked]
    /\ vpcs = <<>> /\ groups = <<>> /\ nets = {}
    /\ refused = FALSE /\ stirred = FALSE /\ overlapped = FALSE

Step(a) ==
    \/ Start(a) \/ DescribeVpcs(a) \/ CreateVpc(a) \/ DescribeSubnets(a)
    \/ DescribeSecurityGroups(a) \/ Compared(a) \/ CreateSubnet(a)
    \/ CreateSecurityGroup(a) \/ GetParams(a) \/ RunInstances(a)

Next == SaveZone \/ \E a \in Attempts : Step(a)

Spec == Init /\ [][Next]_vars

-----------------------------------------------------------------------------
(* An attempt that has come to the point of making a subnet has a network, *)
(* one that is about to buy has all three, and every id names something.   *)
TypeOK ==
    /\ zone \in Zones
    /\ vpcs \in Seq(Regions) /\ groups \in Seq(Regions)
    /\ \A n \in nets : n.vpc \in DOMAIN vpcs /\ n.zone \in Zones /\ n.idx \in Nat
    /\ \A a \in Attempts :
          LET t == attempt[a] IN
          /\ t.at \in {"idle", "looking", "subnet", "group", "ready", "run", "over"}
          /\ t.name \in Zones /\ t.body \in Zones
          /\ t.vpc.id \in DOMAIN vpcs \cup {0} /\ t.net.id \in nets \cup {NoNet}
          /\ t.group.id \in DOMAIN groups \cup {0}
          /\ t.at \in {"subnet", "group", "ready", "run"} => t.vpc.id # 0
          /\ t.at \in {"group", "ready", "run"} => t.net.id # NoNet
          /\ t.at \in {"ready", "run"} => t.group.id # 0
    /\ {refused, stirred, overlapped} \subseteq BOOLEAN

Calm == ~stirred /\ ~overlapped

(* However many attempts fail, at whatever step, and whatever answers are  *)
(* lost: as long as one ends, loadVpc included, before the next begins and *)
(* the zone is not changed meanwhile, none is made twice: a network and a  *)
(* group for each region, a subnet for each zone.                          *)
NoneTwice ==
    Calm => /\ \A i, j \in DOMAIN vpcs : vpcs[i] = vpcs[j] => i = j
            /\ \A i, j \in DOMAIN groups : groups[i] = groups[j] => i = j
            /\ \A m, n \in nets : m.zone = n.zone => m = n

(* Then nothing an earlier attempt has left, in this zone or another, is   *)
(* in the way of a later one: the cloud has no reason to refuse the subnet *)
(* or the host.                                                            *)
NothingInTheWay == Calm => ~refused
=============================================================================
