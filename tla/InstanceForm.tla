----------------------------- MODULE InstanceForm -----------------------------
(***************************************************************************)
(* The host page of the settings, src/views/settings/Instance.tsx: a chain *)
(* of selects, each of which asks the cloud what the next one may offer.   *)
(* Picking a region asks for its zones, a zone for the instance types sold *)
(* there, a type for the images; an answer fills the options and corrects  *)
(* the value below, by the time the user may have picked something else.   *)
(*                                                                         *)
(* A step is one event handler with the watchers it sets off, up to their  *)
(* awaits.  An image stands for the region it belongs to.  What the cloud  *)
(* sells changes by the minute, so its answers are free.  The password,    *)
(* the disk type, the name and the bandwidth depend on nothing and nothing *)
(* on them: that the schema may refuse them only keeps a save from         *)
(* happening.                                                              *)
(***************************************************************************)
EXTENDS Naturals, FiniteSets

CONSTANTS
    Regions,    \* RegionOptions, and the region of DefaultSettings
    ZonesOf,    \* the zones of each region
    Types,      \* the instance types with 2 CPUs and 2 GB
    Undef,      \* undefined: no value
    Empty,      \* '': the value of a setting never made
    NoForm,     \* the page is not open
    MaxCalls    \* bound: the user waits while so many calls are in flight

Zones == UNION {ZonesOf[r] : r \in Regions}

ASSUME ValuesAssumption ==
    /\ Undef # Empty
    /\ {Undef, Empty} \cap (Regions \cup Zones \cup Types) = {}

VARIABLES
    settings,   \* the fields of globalSettings that name the host
    form,       \* formState, or NoForm
    offer,      \* state: zoneOpts, instTypeOpts, imageOpts
    calls,      \* the calls in flight
    hurried,    \* a region was picked while zones were still being asked for
    built       \* what kind of defaults the program was built with

vars == <<settings, form, offer, calls, hurried, built>>

Host == [region : Regions \cup {Undef}, zone : Zones \cup {Undef, Empty},
         instanceType : Types \cup {Undef, Empty},
         imageId : Regions \cup {Undef, Empty}]

ASSUME NoFormAssumption == NoForm \notin Host

NoOffer  == [zones |-> {}, types |-> {}, images |-> {}]
Given(v) == v \notin {Undef, Empty}
Open     == form # NoForm

(* DefaultSettings: the region, the zone and the type are each a setting   *)
(* of the build of its own, which may give some of them and not others.    *)
DefaultSettings == [region : Regions, zone : Zones \cup {Empty},
                    instanceType : Types \cup {Empty}, imageId : {Empty}]

(* A build that gives a type and no zone, or a zone of another region.     *)
Builds == {"type without zone", "stray zone", "in order"}
BuildOf(s) ==
    CASE s.zone = Empty /\ s.instanceType # Empty -> "type without zone"
      [] s.zone \notin ZonesOf[s.region] \cup {Empty} -> "stray zone"
      [] OTHER -> "in order"

(* validateSettings, as far as it looks at the host. *)
Ready(s) == s.imageId # Empty

-----------------------------------------------------------------------------
(* Calls up to their await.  Two equal calls may be in flight at once (the *)
(* watcher of the zone and onRegionChange both ask for the types); bound:  *)
(* a third one is not told apart from them.                                *)
Call(what, region, arg) == [what |-> what, region |-> region, arg |-> arg, nth |-> 1]
With(cs, k) == cs \cup {[k EXCEPT !.nth = IF k \in cs THEN 2 ELSE 1]}

(* updateInstanceTypes *)
AskTypes(cs, f) ==
    IF Given(f.zone) THEN With(cs, Call("types", f.region, f.zone)) ELSE cs

(* Mutant: loadImages does not look whether a type is chosen. *)
AskImagesAnyway(cs, f) == With(cs, Call("images", f.region, f.instanceType))

(* loadImages *)
AskImages(cs, f) ==
    IF Given(f.instanceType) THEN With(cs, Call("images", f.region, f.instanceType))
                             ELSE cs

-----------------------------------------------------------------------------
(* The page opens with the settings in its fields, and asks for the zones  *)
(* of the region and, if a type is chosen, for its images.                 *)
OpenPage ==
    /\ ~Open
    /\ form' = settings
    /\ offer' = NoOffer
    /\ calls' = AskImages({Call("zones", settings.region, Undef)}, settings)
    /\ UNCHANGED <<settings, hurried, built>>

(* What is still in flight then only reaches a form that is not shown. *)
LeavePage ==
    /\ Open
    /\ form' = NoForm /\ offer' = NoOffer /\ calls' = {}
    /\ UNCHANGED <<settings, hurried, built>>

May == Open /\ Cardinality(calls) < MaxCalls

(* Mutant: the zone of the old region is kept. *)
PickRegionOnly == \E r \in Regions \ {form.region} :
    /\ form' = [form EXCEPT !.region = r, !.imageId = Undef]
    /\ offer' = [offer EXCEPT !.zones = {}]
    /\ calls' = With(calls, Call("zones", r, Undef))
    /\ hurried' = (hurried \/ \E k \in calls : k.what = "zones")
    /\ UNCHANGED <<settings, built>>

(* The select clears what depends on the region, the watcher asks. *)
PickRegion == \E r \in Regions \ {form.region} :
    /\ form' = [form EXCEPT !.region = r, !.zone = Undef, !.imageId = Undef]
    /\ offer' = [offer EXCEPT !.zones = {}]
    /\ calls' = With(calls, Call("zones", r, Undef))
    /\ hurried' = (hurried \/ \E k \in calls : k.what = "zones")
    /\ UNCHANGED <<settings, built>>

PickZone == \E z \in offer.zones \ {form.zone} :
    /\ form' = [form EXCEPT !.zone = z]
    /\ calls' = AskTypes(calls, form')
    /\ UNCHANGED <<settings, offer, hurried, built>>

PickType == \E t \in offer.types \ {form.instanceType} :
    /\ form' = [form EXCEPT !.instanceType = t]
    /\ calls' = AskImages(calls, form')
    /\ UNCHANGED <<settings, offer, hurried, built>>

PickImage == \E i \in offer.images \ {form.imageId} :
    /\ form' = [form EXCEPT !.imageId = i]
    /\ UNCHANGED <<settings, offer, calls, hurried, built>>

(* The schema: every field is a string, which '' is and undefined is not.  *)
Valid(f) == Undef \notin {f.zone, f.instanceType, f.imageId}

Save ==
    /\ Open /\ Valid(form)
    /\ settings' = form
    /\ UNCHANGED <<form, offer, calls, hurried, built>>

-----------------------------------------------------------------------------
(* Answers.  An error and an exception leave everything as it was. *)

CallFails == \E k \in calls :
    /\ calls' = calls \ {k}
    /\ UNCHANGED <<settings, form, offer, hurried, built>>

(* onRegionChange goes on with the region and the zone the form has now:   *)
(* a zone is only filled in where there is none, and the watcher of the    *)
(* zone then asks for the types as well.                                   *)
ZonesAnswered == \E k \in calls : \E available \in SUBSET ZonesOf[k.region] :
    /\ k.what = "zones"
    /\ \E z \in available :
          form' = [form EXCEPT !.zone = IF @ = Undef THEN z ELSE @]
    /\ offer' = [offer EXCEPT !.zones = available]
    /\ calls' = LET watched == IF form.zone = Undef
                               THEN AskTypes(calls \ {k}, form') ELSE calls \ {k}
                IN  AskTypes(watched, form')
    /\ UNCHANGED <<settings, hurried, built>>

(* No zone is available: no options, and the handler returns, throws at    *)
(* ZoneSet[0], or goes on with the zone the form has.                      *)
NoZonesAnswered == \E k \in calls :
    /\ k.what = "zones"
    /\ offer' = [offer EXCEPT !.zones = {}]
    /\ \/ calls' = calls \ {k}
       \/ calls' = AskTypes(calls \ {k}, form)
    /\ UNCHANGED <<settings, form, hurried, built>>

(* The types on sale; none where the zone is not one of the region asked.  *)
TypesAnswered == \E k \in calls, sold \in SUBSET Types :
    /\ k.what = "types"
    /\ k.arg \notin ZonesOf[k.region] => sold = {}
    /\ offer' = [offer EXCEPT !.types = sold]
    /\ \/ sold = {} /\ form' = [form EXCEPT !.instanceType = Undef]
       \/ form.instanceType \in sold /\ UNCHANGED form
       \/ /\ form.instanceType \notin sold
          /\ \E t \in sold : form' = [form EXCEPT !.instanceType = t]
    /\ calls' = IF form' = form THEN calls \ {k} ELSE AskImages(calls \ {k}, form')
    /\ UNCHANGED <<settings, hurried, built>>

ImagesAnswered == \E k \in calls : \E found \in SUBSET {k.region} :
    /\ k.what = "images"
    /\ offer' = [offer EXCEPT !.images = found]
    /\ form' = [form EXCEPT !.imageId = IF found = {} THEN Undef ELSE k.region]
    /\ calls' = calls \ {k}
    /\ UNCHANGED <<settings, hurried, built>>

Init ==
    /\ settings \in DefaultSettings /\ built = BuildOf(settings)
    /\ form = NoForm /\ offer = NoOffer /\ calls = {} /\ hurried = FALSE

Pick    == PickRegion \/ PickZone \/ PickType \/ PickImage
Answers == \/ CallFails \/ ZonesAnswered \/ NoZonesAnswered
           \/ TypesAnswered \/ ImagesAnswered

Next == OpenPage \/ LeavePage \/ (May /\ Pick) \/ Save \/ Answers

Spec == Init /\ [][Next]_vars

-----------------------------------------------------------------------------
(* What is in flight is about a region and, for types and images, about a  *)
(* value that was given; nothing is in flight for a page that is not open. *)
TypeOK ==
    /\ settings \in Host /\ settings.region \in Regions
    /\ form \in Host \cup {NoForm}
    /\ offer \in [zones : SUBSET Zones, types : SUBSET Types, images : SUBSET Regions]
    /\ \A k \in calls : /\ k.region \in Regions /\ k.nth \in {1, 2}
                        /\ \/ k.what = "zones" /\ k.arg = Undef
                           \/ k.what = "types" /\ k.arg \in Zones
                           \/ k.what = "images" /\ k.arg \in Types
    /\ ~Open => calls = {}
    /\ hurried \in BOOLEAN /\ built \in Builds

(* Whatever is picked, answered late or not at all: settings that pass     *)
(* validateSettings, which looks at the image, name a zone and a type too, *)
(* so that neither the price (proxy/index.tsx) nor a new host meets        *)
(* 'settings missing' (tencent.ts).  The exception is a program built with *)
(* a type and no zone: the page loads the images of that type as it opens, *)
(* the schema takes '' for a zone, and what is saved has none.             *)
ReadyMeansComplete ==
    Ready(settings) =>
        /\ Given(settings.instanceType) /\ Given(settings.imageId)
        /\ built = "type without zone" \/ Given(settings.zone)

(* The zone saved is one of the region saved, unless the program was built *)
(* with a zone of another region, or a region was picked while the zones   *)
(* of another were still being asked for: that answer fills the zone in    *)
(* first (Instance.tsx, `formState.zone ??=`).                             *)
ZoneOfRegion ==
    \/ hurried \/ built = "stray zone"
    \/ settings.zone \in ZonesOf[settings.region] \cup {Empty}
=============================================================================
