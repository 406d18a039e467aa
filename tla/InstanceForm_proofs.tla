------------------------- MODULE InstanceForm_proofs -------------------------
(***************************************************************************)
(* What the host page saves, for any number of regions, zones, types and   *)
(* calls in flight.                                                        *)
(***************************************************************************)
EXTENDS InstanceForm, TLAPS

(* What the calls of a set are about. *)
About(k, what, region, arg) ==
    k.what = what /\ k.region = region /\ k.arg = arg /\ k.nth \in {1, 2}

LEMMA WithAdds ==
    ASSUME NEW cs, NEW what, NEW region, NEW arg
    PROVE  \A k \in With(cs, Call(what, region, arg)) :
              k \in cs \/ About(k, what, region, arg)
BY DEF With, Call, About

LEMMA TypesAsked ==
    ASSUME NEW cs, NEW f
    PROVE  \A k \in AskTypes(cs, f) :
              k \in cs \/ (Given(f.zone) /\ About(k, "types", f.region, f.zone))
BY WithAdds DEF AskTypes

LEMMA ImagesAsked ==
    ASSUME NEW cs, NEW f
    PROVE  \A k \in AskImages(cs, f) :
              \/ k \in cs
              \/ Given(f.instanceType) /\ About(k, "images", f.region, f.instanceType)
BY WithAdds DEF AskImages

(* One call, as TypeOK has it. *)
CallOK(k) ==
    /\ k.region \in Regions /\ k.nth \in {1, 2}
    /\ \/ k.what = "zones" /\ k.arg = Undef
       \/ k.what = "types" /\ k.arg \in Zones
       \/ k.what = "images" /\ k.arg \in Types

(* A form that is shown has a region; TypeOK alone would allow none. *)
Typed == TypeOK /\ (Open => form.region \in Regions)

LEMMA TypedCalls == TypeOK => \A k \in calls : CallOK(k)
BY DEF TypeOK, CallOK

LEMMA TypesCallsOK ==
    ASSUME NEW cs, \A k \in cs : CallOK(k), NEW f \in Host, f.region \in Regions
    PROVE  \A k \in AskTypes(cs, f) : CallOK(k)
BY TypesAsked DEF About, CallOK, Host, Given

LEMMA ImagesCallsOK ==
    ASSUME NEW cs, \A k \in cs : CallOK(k), NEW f \in Host, f.region \in Regions
    PROVE  \A k \in AskImages(cs, f) : CallOK(k)
BY ImagesAsked DEF About, CallOK, Host, Given

LEMMA ZonesCallsOK ==
    ASSUME NEW cs, \A k \in cs : CallOK(k), NEW r \in Regions
    PROVE  \A k \in With(cs, Call("zones", r, Undef)) : CallOK(k)
BY WithAdds DEF About, CallOK

LEMMA InitTyped == Init => Typed
<1> SUFFICES ASSUME Init PROVE Typed
    OBVIOUS
<1>1. settings \in Host /\ settings.region \in Regions
    BY DEF Init, DefaultSettings, Host
<1>2. offer \in [zones : SUBSET Zones, types : SUBSET Types, images : SUBSET Regions]
    BY DEF Init, NoOffer
<1>3. built \in Builds
    BY DEF Init, BuildOf, Builds
<1> QED BY <1>1, <1>2, <1>3 DEF Init, Typed, TypeOK, Open

(* The types of the next state, from what every action has to show. *)
LEMMA TypedNext ==
    ASSUME settings' \in Host, settings'.region \in Regions,
           form' \in Host \cup {NoForm},
           form' # NoForm => form'.region \in Regions,
           form' = NoForm => calls' = {},
           offer' \in [zones : SUBSET Zones, types : SUBSET Types, images : SUBSET Regions],
           \A k \in calls' : CallOK(k),
           hurried' \in BOOLEAN, built' \in Builds
    PROVE  Typed'
BY DEF Typed, TypeOK, CallOK, Open

LEMMA TypedInductive == Typed /\ [Next]_vars => Typed'
<1> SUFFICES ASSUME Typed, [Next]_vars PROVE Typed'
    OBVIOUS
<1> USE DEF Typed
<1>0. \A k \in calls : CallOK(k)
    BY TypedCalls
<1>t. TypeOK
    OBVIOUS
<1>1. CASE OpenPage
    <2>1. settings \in Host /\ settings.region \in Regions
        BY <1>t DEF TypeOK
    <2>2. \A k \in {Call("zones", settings.region, Undef)} : CallOK(k)
        BY <2>1 DEF Call, CallOK
    <2>3. \A k \in calls' : CallOK(k)
        BY <1>1, <2>1, <2>2, ImagesCallsOK DEF OpenPage
    <2>4. form' # NoForm
        BY <1>1, <2>1, NoFormAssumption DEF OpenPage
    <2> QED BY <1>1, <1>t, <2>1, <2>3, <2>4, TypedNext DEF OpenPage, TypeOK, NoOffer
<1>2. CASE LeavePage
    BY <1>2, <1>t, TypedNext DEF LeavePage, TypeOK, NoOffer
<1>3. CASE May /\ PickRegion
    <2>1. form \in Host /\ Open
        BY <1>3, <1>t DEF May, TypeOK, Open
    <2>2. PICK r \in Regions : 
             /\ form' = [form EXCEPT !.region = r, !.zone = Undef, !.imageId = Undef]
             /\ calls' = With(calls, Call("zones", r, Undef))
        BY <1>3 DEF PickRegion
    <2>3. form' \in Host /\ form'.region = r
        BY <2>1, <2>2 DEF Host
    <2>4. \A k \in calls' : CallOK(k)
        BY <1>0, <2>2, ZonesCallsOK
    <2> QED BY <1>3, <1>t, <2>3, <2>4, TypedNext, NoFormAssumption DEF PickRegion, TypeOK
<1>4. CASE May /\ PickZone
    <2>1. form \in Host /\ Open /\ form.region \in Regions
        BY <1>4, <1>t DEF May, TypeOK, Open
    <2>2. PICK z \in offer.zones : form' = [form EXCEPT !.zone = z]
        BY <1>4 DEF PickZone
    <2>3. form' \in Host /\ form'.region \in Regions
        BY <2>1, <2>2, <1>t DEF Host, TypeOK
    <2>4. \A k \in calls' : CallOK(k)
        BY <1>0, <1>4, <2>3, TypesCallsOK DEF PickZone
    <2> QED BY <1>4, <1>t, <2>3, <2>4, TypedNext, NoFormAssumption DEF PickZone, TypeOK
<1>5. CASE May /\ PickType
    <2>1. form \in Host /\ Open /\ form.region \in Regions
        BY <1>5, <1>t DEF May, TypeOK, Open
    <2>2. PICK t \in offer.types : form' = [form EXCEPT !.instanceType = t]
        BY <1>5 DEF PickType
    <2>3. form' \in Host /\ form'.region \in Regions
        BY <2>1, <2>2, <1>t DEF Host, TypeOK
    <2>4. \A k \in calls' : CallOK(k)
        BY <1>0, <1>5, <2>3, ImagesCallsOK DEF PickType
    <2> QED BY <1>5, <1>t, <2>3, <2>4, TypedNext, NoFormAssumption DEF PickType, TypeOK
<1>6. CASE May /\ PickImage
    <2>1. form \in Host /\ Open /\ form.region \in Regions
        BY <1>6, <1>t DEF May, TypeOK, Open
    <2>2. PICK i \in offer.images : form' = [form EXCEPT !.imageId = i]
        BY <1>6 DEF PickImage
    <2>3. form' \in Host /\ form'.region \in Regions
        BY <2>1, <2>2, <1>t DEF Host, TypeOK
    <2> QED BY <1>0, <1>6, <1>t, <2>3, TypedNext, NoFormAssumption DEF PickImage, TypeOK
<1>7. CASE Save
    BY <1>0, <1>7, <1>t, TypedNext DEF Save, TypeOK, Open
<1>8. CASE CallFails
    <2>1. \A k \in calls' : CallOK(k)
        BY <1>0, <1>8 DEF CallFails
    <2>2. form = NoForm => calls' = {}
        BY <1>8, <1>t DEF CallFails, TypeOK, Open
    <2> QED BY <1>8, <1>t, <2>1, <2>2, TypedNext DEF CallFails, TypeOK, Open
<1>9. CASE ZonesAnswered
    <2>1. PICK k \in calls : \E available \in SUBSET ZonesOf[k.region] :
             /\ \E z \in available :
                   form' = [form EXCEPT !.zone = IF @ = Undef THEN z ELSE @]
             /\ offer' = [offer EXCEPT !.zones = available]
             /\ calls' = LET watched == IF form.zone = Undef
                                        THEN AskTypes(calls \ {k}, form') ELSE calls \ {k}
                         IN  AskTypes(watched, form')
        BY <1>9 DEF ZonesAnswered
    <2>2. form \in Host /\ form.region \in Regions /\ k.region \in Regions
        BY <1>0, <1>t DEF TypeOK, Open, CallOK
    <2>3. ZonesOf[k.region] \subseteq Zones
        BY <2>2 DEF Zones
    <2>4. form' \in Host /\ form'.region \in Regions
        BY <2>1, <2>2, <2>3 DEF Host
    <2>5. \A c \in AskTypes(calls \ {k}, form') : CallOK(c)
        BY <1>0, <2>4, TypesCallsOK
    <2>6. \A c \in calls' : CallOK(c)
        BY <1>0, <2>1, <2>4, <2>5, TypesCallsOK
    <2>7. offer' \in [zones : SUBSET Zones, types : SUBSET Types, images : SUBSET Regions]
        BY <1>t, <2>1, <2>3 DEF TypeOK
    <2> QED BY <1>9, <1>t, <2>4, <2>6, <2>7, TypedNext, NoFormAssumption
            DEF ZonesAnswered, TypeOK
<1>10. CASE NoZonesAnswered
    <2>1. PICK k \in calls : calls' = calls \ {k} \/ calls' = AskTypes(calls \ {k}, form)
        BY <1>10 DEF NoZonesAnswered
    <2>2. form \in Host /\ form.region \in Regions /\ form # NoForm
        BY <1>t DEF TypeOK, Open
    <2>3. \A c \in calls' : CallOK(c)
        BY <1>0, <2>1, <2>2, TypesCallsOK
    <2> QED BY <1>10, <1>t, <2>2, <2>3, TypedNext DEF NoZonesAnswered, TypeOK
<1>11. CASE TypesAnswered
    <2>1. PICK k \in calls, sold \in SUBSET Types :
             /\ offer' = [offer EXCEPT !.types = sold]
             /\ \/ form' = [form EXCEPT !.instanceType = Undef]
                \/ form' = form
                \/ \E t \in sold : form' = [form EXCEPT !.instanceType = t]
             /\ calls' = IF form' = form THEN calls \ {k} ELSE AskImages(calls \ {k}, form')
        BY <1>11 DEF TypesAnswered
    <2>2. form \in Host /\ form.region \in Regions
        BY <1>t DEF TypeOK, Open
    <2>3. form' \in Host /\ form'.region \in Regions
        BY <2>1, <2>2 DEF Host
    <2>4. \A c \in calls' : CallOK(c)
        BY <1>0, <2>1, <2>3, ImagesCallsOK
    <2>5. offer' \in [zones : SUBSET Zones, types : SUBSET Types, images : SUBSET Regions]
        BY <1>t, <2>1 DEF TypeOK
    <2> QED BY <1>11, <1>t, <2>3, <2>4, <2>5, TypedNext, NoFormAssumption
            DEF TypesAnswered, TypeOK
<1>12. CASE ImagesAnswered
    <2>1. PICK k \in calls : \E found \in SUBSET {k.region} :
             /\ offer' = [offer EXCEPT !.images = found]
             /\ form' = [form EXCEPT !.imageId = IF found = {} THEN Undef ELSE k.region]
             /\ calls' = calls \ {k}
        BY <1>12 DEF ImagesAnswered
    <2>2. form \in Host /\ form.region \in Regions /\ k.region \in Regions
        BY <1>0, <1>t DEF TypeOK, Open, CallOK
    <2>3. form' \in Host /\ form'.region \in Regions
        BY <2>1, <2>2 DEF Host
    <2>4. \A c \in calls' : CallOK(c)
        BY <1>0, <2>1
    <2>5. offer' \in [zones : SUBSET Zones, types : SUBSET Types, images : SUBSET Regions]
        BY <1>t, <2>1, <2>2 DEF TypeOK
    <2> QED BY <1>12, <1>t, <2>3, <2>4, <2>5, TypedNext, NoFormAssumption
            DEF ImagesAnswered, TypeOK
<1>13. CASE UNCHANGED vars
    BY <1>13 DEF TypeOK, vars, Open
<1> QED BY <1>1, <1>2, <1>3, <1>4, <1>5, <1>6, <1>7, <1>8, <1>9, <1>10, <1>11, <1>12, <1>13
        DEF Next, Pick, Answers

(* TypeOK holds whatever the user picks and the cloud answers, however late. *)
THEOREM InstanceFormTypes == Spec => []TypeOK
<1> QED BY InitTyped, TypedInductive, PTL DEF Spec, Typed

-----------------------------------------------------------------------------
(* Without a zone nothing below it was ever given, unless by the build;    *)
(* without a type no image.                                                *)
Whole == built # "type without zone"

TopDown(f) ==
    /\ Whole /\ f.zone = Empty => f.instanceType = Empty /\ f.imageId = Empty
    /\ f.instanceType = Empty => f.imageId \in {Empty, Undef}

(* Nothing is asked or offered that could give it. *)
NothingBelow ==
    /\ Whole /\ form.zone = Empty =>
          /\ offer.types = {} /\ offer.images = {}
          /\ \A k \in calls : k.what = "zones"
    /\ form.instanceType = Empty =>
          /\ offer.images = {}
          /\ \A k \in calls : k.what # "images"

Saved == TopDown(settings) /\ Valid(settings)
Shown == Open => TopDown(form) /\ NothingBelow

LEMMA CompleteInductive == Typed /\ Typed' /\ Saved /\ Shown /\ [Next]_vars => Saved' /\ Shown'
<1> SUFFICES ASSUME Typed, Typed', Saved, Shown, [Next]_vars PROVE Saved' /\ Shown'
    OBVIOUS
<1>w. Whole' <=> Whole
    BY DEF Whole, Next, Pick, Answers, OpenPage, LeavePage, PickRegion, PickZone, PickType,
           PickImage, Save, CallFails, ZonesAnswered, NoZonesAnswered, TypesAnswered,
           ImagesAnswered, vars
<1>u. Undef # Empty /\ Empty \notin Zones /\ Empty \notin Types /\ Empty \notin Regions
    BY ValuesAssumption
<1>1. CASE OpenPage
    <2>1. Saved'
        BY <1>w, <1>1 DEF OpenPage, Saved, TopDown, Valid
    <2>2. TopDown(form)'
        BY <1>w, <1>1 DEF OpenPage, Saved, TopDown
    <2>3. \A k \in calls' : \/ k.what = "zones"
                            \/ Given(settings.instanceType) /\ k.what = "images"
        BY <1>1, ImagesAsked DEF OpenPage, Call, About
    <2>4. NothingBelow'
        BY <1>w, <1>1, <2>3 DEF OpenPage, Saved, TopDown, NothingBelow, NoOffer, Given
    <2> QED BY <2>1, <2>2, <2>4 DEF Shown
<1>2. CASE LeavePage
    BY <1>w, <1>2 DEF LeavePage, Saved, Shown, TopDown, Valid, Open
<1>3. CASE May /\ PickRegion
    <2>1. PICK r \in Regions : 
             /\ form' = [form EXCEPT !.region = r, !.zone = Undef, !.imageId = Undef]
             /\ offer' = [offer EXCEPT !.zones = {}]
             /\ calls' = With(calls, Call("zones", r, Undef))
        BY <1>3 DEF PickRegion
    <2>2. form \in Host /\ TopDown(form) /\ NothingBelow
        BY <1>3 DEF May, Typed, TypeOK, Open, Shown
    <2>3. form'.zone = Undef /\ form'.imageId = Undef /\ form'.instanceType = form.instanceType
        BY <2>1, <2>2 DEF Host
    <2>4. \A k \in calls' : k \in calls \/ k.what = "zones"
        BY <2>1, WithAdds DEF About
    <2>5. offer'.images = offer.images
        BY <2>1 DEF Typed, TypeOK
    <2>6. TopDown(form)'
        BY <1>w, <1>u, <2>2, <2>3 DEF TopDown
    <2>7. NothingBelow'
        BY <1>w, <1>u, <2>2, <2>3, <2>4, <2>5 DEF NothingBelow
    <2> QED BY <1>w, <1>3, <2>6, <2>7 DEF PickRegion, Saved, Shown, TopDown, Valid
<1>4. CASE May /\ PickZone
    <2>1. PICK z \in offer.zones : form' = [form EXCEPT !.zone = z]
        BY <1>4 DEF PickZone
    <2>2. form \in Host /\ TopDown(form) /\ NothingBelow /\ z \in Zones
        BY <1>4, <2>1 DEF May, Typed, TypeOK, Open, Shown
    <2>3. form'.zone = z /\ form'.imageId = form.imageId /\ form'.instanceType = form.instanceType
        BY <2>1, <2>2 DEF Host
    <2>4. \A k \in calls' : k \in calls \/ k.what = "types"
        BY <1>4, TypesAsked DEF About, PickZone
    <2>6. TopDown(form)'
        BY <1>w, <1>u, <2>2, <2>3 DEF TopDown
    <2>7. NothingBelow'
        BY <1>w, <1>4, <1>u, <2>2, <2>3, <2>4 DEF NothingBelow, PickZone
    <2> QED BY <1>w, <1>4, <2>6, <2>7 DEF PickZone, Saved, Shown, TopDown, Valid
<1>5. CASE May /\ PickType
    <2>1. PICK t \in offer.types : form' = [form EXCEPT !.instanceType = t]
        BY <1>5 DEF PickType
    <2>2. form \in Host /\ TopDown(form) /\ NothingBelow /\ t \in Types
        BY <1>5, <2>1 DEF May, Typed, TypeOK, Open, Shown
    <2>3. form'.zone = form.zone /\ form'.imageId = form.imageId /\ form'.instanceType = t
        BY <2>1, <2>2 DEF Host
    <2>4. Whole => form.zone # Empty
        BY <2>1, <2>2 DEF NothingBelow
    <2>5. TopDown(form)' /\ NothingBelow'
        BY <1>w, <1>u, <2>2, <2>3, <2>4 DEF TopDown, NothingBelow
    <2> QED BY <1>w, <1>5, <2>5 DEF PickType, Saved, Shown, TopDown, Valid
<1>6. CASE May /\ PickImage
    <2>1. PICK i \in offer.images : form' = [form EXCEPT !.imageId = i]
        BY <1>6 DEF PickImage
    <2>2. form \in Host /\ TopDown(form) /\ NothingBelow
        BY <1>6, <2>1 DEF May, Typed, TypeOK, Open, Shown
    <2>3. form'.zone = form.zone /\ form'.imageId = i /\ form'.instanceType = form.instanceType
        BY <2>1, <2>2 DEF Host
    <2>4. (Whole => form.zone # Empty) /\ form.instanceType # Empty
        BY <2>1, <2>2 DEF NothingBelow
    <2>5. TopDown(form)' /\ NothingBelow'
        BY <1>w, <2>3, <2>4 DEF TopDown, NothingBelow
    <2> QED BY <1>w, <1>6, <2>5 DEF PickImage, Saved, Shown, TopDown, Valid
<1>7. CASE Save
    BY <1>w, <1>7 DEF Save, Saved, Shown, TopDown, NothingBelow, Valid, Open
<1>8. CASE CallFails
    BY <1>w, <1>8 DEF CallFails, Saved, Shown, TopDown, NothingBelow, Valid, Open
<1>9. CASE ZonesAnswered
    <2>1. PICK k \in calls : \E available \in SUBSET ZonesOf[k.region] :
             /\ k.what = "zones"
             /\ \E z \in available :
                   form' = [form EXCEPT !.zone = IF @ = Undef THEN z ELSE @]
             /\ offer' = [offer EXCEPT !.zones = available]
             /\ calls' = LET watched == IF form.zone = Undef
                                        THEN AskTypes(calls \ {k}, form') ELSE calls \ {k}
                         IN  AskTypes(watched, form')
        BY <1>9 DEF ZonesAnswered
    <2>2. form \in Host /\ TopDown(form) /\ NothingBelow /\ k.region \in Regions
        BY <2>1 DEF Typed, TypeOK, Open, Shown
    <2>3. PICK z \in ZonesOf[k.region] :
             form' = [form EXCEPT !.zone = IF @ = Undef THEN z ELSE @]
        BY <2>1
    <2>4. z \in Zones
        BY <2>2, <2>3 DEF Zones
    <2>5. /\ form'.zone = IF form.zone = Undef THEN z ELSE form.zone
          /\ form'.imageId = form.imageId /\ form'.instanceType = form.instanceType
        BY <2>2, <2>3 DEF Host
    <2>6. \A c \in AskTypes(calls \ {k}, form') :
             c \in calls \/ (Given(form'.zone) /\ c.what = "types")
        BY TypesAsked DEF About
    <2>7. \A c \in calls' : c \in calls \/ (Given(form'.zone) /\ c.what = "types")
        <3>1. CASE form.zone = Undef
            <4>1. calls' = AskTypes(AskTypes(calls \ {k}, form'), form')
                BY <2>1, <3>1
            <4>2. \A c \in calls' : \/ c \in AskTypes(calls \ {k}, form')
                                    \/ Given(form'.zone) /\ c.what = "types"
                BY <4>1, TypesAsked DEF About
            <4> QED BY <2>6, <4>2
        <3>2. CASE form.zone # Undef
            BY <2>1, <2>6, <3>2
        <3> QED BY <3>1, <3>2
    <2>8. offer'.types = offer.types /\ offer'.images = offer.images
        BY <2>1 DEF Typed, TypeOK
    <2>9. TopDown(form)'
        BY <1>w, <1>u, <2>2, <2>4, <2>5 DEF TopDown
    <2>10. NothingBelow'
        BY <1>w, <1>u, <2>2, <2>4, <2>5, <2>7, <2>8 DEF NothingBelow, Given
    <2> QED BY <1>w, <1>9, <2>9, <2>10 DEF ZonesAnswered, Saved, Shown, TopDown, Valid
<1>10. CASE NoZonesAnswered
    <2>1. PICK k \in calls :
             /\ offer' = [offer EXCEPT !.zones = {}]
             /\ calls' = calls \ {k} \/ calls' = AskTypes(calls \ {k}, form)
        BY <1>10 DEF NoZonesAnswered
    <2>2. TopDown(form) /\ NothingBelow
        BY <2>1 DEF Typed, TypeOK, Open, Shown
    <2>3. \A c \in calls' : c \in calls \/ (Given(form.zone) /\ c.what = "types")
        BY <2>1, TypesAsked DEF About
    <2>4. offer'.types = offer.types /\ offer'.images = offer.images
        BY <2>1 DEF Typed, TypeOK
    <2>5. NothingBelow'
        BY <1>w, <1>10, <2>2, <2>3, <2>4 DEF NothingBelow, Given, NoZonesAnswered
    <2> QED BY <1>w, <1>10, <2>2, <2>5 DEF NoZonesAnswered, Saved, Shown, TopDown, Valid
<1>11. CASE TypesAnswered
    <2>1. PICK k \in calls, sold \in SUBSET Types :
             /\ k.what = "types"
             /\ offer' = [offer EXCEPT !.types = sold]
             /\ \/ form' = [form EXCEPT !.instanceType = Undef]
                \/ form.instanceType \in sold /\ form' = form
                \/ \E t \in sold : form' = [form EXCEPT !.instanceType = t]
             /\ calls' = IF form' = form THEN calls \ {k} ELSE AskImages(calls \ {k}, form')
        BY <1>11 DEF TypesAnswered
    <2>2. form \in Host /\ TopDown(form) /\ NothingBelow
        BY <2>1 DEF Typed, TypeOK, Open, Shown
    <2>3. /\ form'.zone = form.zone /\ form'.imageId = form.imageId
          /\ form'.instanceType # Empty
        BY <1>u, <2>1, <2>2 DEF Host
    <2>4. Whole => form.zone # Empty
        BY <2>1, <2>2 DEF NothingBelow
    <2>5. TopDown(form)' /\ NothingBelow'
        BY <1>w, <2>2, <2>3, <2>4 DEF TopDown, NothingBelow
    <2> QED BY <1>w, <1>11, <2>5 DEF TypesAnswered, Saved, Shown, TopDown, Valid
<1>12. CASE ImagesAnswered
    <2>1. PICK k \in calls : \E found \in SUBSET {k.region} :
             /\ k.what = "images"
             /\ form' = [form EXCEPT !.imageId = IF found = {} THEN Undef ELSE k.region]
        BY <1>12 DEF ImagesAnswered
    <2>2. form \in Host /\ NothingBelow
        BY <2>1 DEF Typed, TypeOK, Open, Shown
    <2>3. (Whole => form.zone # Empty) /\ form.instanceType # Empty
        BY <2>1, <2>2 DEF NothingBelow
    <2>4. form'.zone = form.zone /\ form'.instanceType = form.instanceType
        BY <2>1, <2>2 DEF Host
    <2>5. TopDown(form)' /\ NothingBelow'
        BY <1>w, <2>3, <2>4 DEF TopDown, NothingBelow
    <2> QED BY <1>w, <1>12, <2>5 DEF ImagesAnswered, Saved, Shown, TopDown, Valid
<1>13. CASE UNCHANGED vars
    BY <1>w, <1>13 DEF vars, Saved, Shown, TopDown, NothingBelow, Valid, Open
<1> QED BY <1>1, <1>2, <1>3, <1>4, <1>5, <1>6, <1>7, <1>8, <1>9, <1>10, <1>11, <1>12, <1>13
        DEF Next, Pick, Answers

(* ReadyMeansComplete: no order of picks, saves and late answers leaves    *)
(* settings with an image and without a type, or without a zone unless the *)
(* program was built with a type and no zone.                              *)
THEOREM ReadyAlwaysComplete == Spec => []ReadyMeansComplete
<1>1. Init => Typed /\ Saved /\ Shown
    BY InitTyped, ValuesAssumption
    DEF Init, Open, DefaultSettings, BuildOf, Whole, Saved, Shown, TopDown, Valid
<1>2. Typed /\ Saved /\ Shown /\ [Next]_vars => (Typed /\ Saved /\ Shown)'
    BY TypedInductive, CompleteInductive
<1>3. Typed /\ Saved => ReadyMeansComplete
    BY DEF Typed, Saved, TopDown, Whole, Valid, ReadyMeansComplete, Ready, Given
<1> QED BY <1>1, <1>2, <1>3, PTL DEF Spec

-----------------------------------------------------------------------------
(* As long as no region was picked while zones were asked for, all that is *)
(* asked for and shown of zones is about the region of the form, in which  *)
(* the build has put no zone of another.                                   *)
OneRegion == Open =>
    /\ form.zone \in ZonesOf[form.region] \cup {Empty, Undef}
    /\ offer.zones \subseteq ZonesOf[form.region]
    /\ \A k \in calls : k.what = "zones" => k.region = form.region

NoStray  == built # "stray zone"

Regional == ~hurried /\ NoStray =>
    OneRegion /\ settings.zone \in ZonesOf[settings.region] \cup {Empty}

LEMMA RegionalInductive == Typed /\ Typed' /\ Regional /\ [Next]_vars => Regional'
<1> SUFFICES ASSUME Typed, Typed', Regional, [Next]_vars,
                    ~hurried', NoStray' PROVE Regional'
    BY DEF Regional
<1>h. ~hurried /\ NoStray
    BY DEF NoStray, Next, Pick, Answers, OpenPage, LeavePage, PickRegion, PickZone, PickType, PickImage,
           Save, CallFails, ZonesAnswered, NoZonesAnswered, TypesAnswered, ImagesAnswered, vars,
           Typed, TypeOK
<1>o. OneRegion /\ settings.zone \in ZonesOf[settings.region] \cup {Empty}
    BY <1>h DEF Regional
<1>1. CASE OpenPage
    <2>1. \A k \in calls' : k.what = "zones" => k.region = settings.region
        BY <1>1, ImagesAsked DEF OpenPage, Call, About
    <2> QED BY <1>1, <1>o, <2>1 DEF OpenPage, Regional, OneRegion, NoOffer
<1>2. CASE LeavePage
    BY <1>2, <1>o DEF LeavePage, Regional, OneRegion, Open
<1>3. CASE May /\ PickRegion
    <2>1. PICK r \in Regions : 
             /\ form' = [form EXCEPT !.region = r, !.zone = Undef, !.imageId = Undef]
             /\ offer' = [offer EXCEPT !.zones = {}]
             /\ calls' = With(calls, Call("zones", r, Undef))
             /\ \A k \in calls : k.what # "zones"
        BY <1>3 DEF PickRegion
    <2>2. form \in Host
        BY <1>3 DEF May, Typed, TypeOK, Open
    <2>3. form'.zone = Undef /\ form'.region = r /\ offer'.zones = {}
        BY <2>1, <2>2 DEF Host, Typed, TypeOK
    <2>4. \A k \in calls' : k.what = "zones" => k.region = r
        BY <2>1, WithAdds DEF About
    <2> QED BY <1>3, <1>o, <2>3, <2>4 DEF PickRegion, Regional, OneRegion
<1>4. CASE May /\ PickZone
    <2>1. PICK z \in offer.zones : form' = [form EXCEPT !.zone = z]
        BY <1>4 DEF PickZone
    <2>2. form \in Host /\ Open
        BY <1>4 DEF May, Typed, TypeOK, Open
    <2>3. form'.zone = z /\ form'.region = form.region
        BY <2>1, <2>2 DEF Host
    <2>4. \A k \in calls' : k.what = "zones" => k \in calls
        BY <1>4, TypesAsked DEF About, PickZone
    <2> QED BY <1>4, <1>o, <2>2, <2>3, <2>4 DEF PickZone, Regional, OneRegion
<1>5. CASE May /\ PickType
    <2>1. PICK t \in offer.types : form' = [form EXCEPT !.instanceType = t]
        BY <1>5 DEF PickType
    <2>2. form \in Host /\ Open
        BY <1>5 DEF May, Typed, TypeOK, Open
    <2>3. form'.zone = form.zone /\ form'.region = form.region
        BY <2>1, <2>2 DEF Host
    <2>4. \A k \in calls' : k.what = "zones" => k \in calls
        BY <1>5, ImagesAsked DEF About, PickType
    <2> QED BY <1>5, <1>o, <2>2, <2>3, <2>4 DEF PickType, Regional, OneRegion
<1>6. CASE May /\ PickImage
    <2>1. PICK i \in offer.images : form' = [form EXCEPT !.imageId = i]
        BY <1>6 DEF PickImage
    <2>2. form \in Host /\ Open
        BY <1>6 DEF May, Typed, TypeOK, Open
    <2>3. form'.zone = form.zone /\ form'.region = form.region
        BY <2>1, <2>2 DEF Host
    <2> QED BY <1>6, <1>o, <2>2, <2>3 DEF PickImage, Regional, OneRegion
<1>7. CASE Save
    BY <1>7, <1>o DEF Save, Valid, Regional, OneRegion, Open
<1>8. CASE CallFails
    BY <1>8, <1>o DEF CallFails, Regional, OneRegion, Open
<1>9. CASE ZonesAnswered
    <2>1. PICK k \in calls, available \in SUBSET Zones :
             /\ available \subseteq ZonesOf[k.region]
             /\ k.what = "zones"
             /\ \E z \in available :
                   form' = [form EXCEPT !.zone = IF @ = Undef THEN z ELSE @]
             /\ offer' = [offer EXCEPT !.zones = available]
             /\ calls' = LET watched == IF form.zone = Undef
                                        THEN AskTypes(calls \ {k}, form') ELSE calls \ {k}
                         IN  AskTypes(watched, form')
        <3>1. \A k \in calls : ZonesOf[k.region] \subseteq Zones
            BY DEF Typed, TypeOK, Zones
        <3> QED BY <1>9, <3>1 DEF ZonesAnswered
    <2>2. form \in Host /\ Open /\ k.region = form.region
        BY <1>o, <2>1 DEF Typed, TypeOK, Open, OneRegion
    <2>3. /\ form'.zone \in ZonesOf[form.region] \cup {Empty, Undef}
          /\ form'.region = form.region
        BY <1>o, <2>1, <2>2 DEF Host, OneRegion
    <2>4. \A c \in AskTypes(calls \ {k}, form') : c.what = "zones" => c \in calls
        BY TypesAsked DEF About
    <2>5. \A c \in calls' : c.what = "zones" => c \in calls
        <3>1. CASE form.zone = Undef
            BY <2>1, <2>4, <3>1, TypesAsked DEF About
        <3>2. CASE form.zone # Undef
            BY <2>1, <2>4, <3>2
        <3> QED BY <3>1, <3>2
    <2>6. offer'.zones \subseteq ZonesOf[form.region]
        BY <2>1, <2>2 DEF Typed, TypeOK
    <2> QED BY <1>9, <1>o, <2>2, <2>3, <2>5, <2>6 DEF ZonesAnswered, Regional, OneRegion
<1>10. CASE NoZonesAnswered
    <2>1. PICK k \in calls :
             /\ offer' = [offer EXCEPT !.zones = {}]
             /\ calls' = calls \ {k} \/ calls' = AskTypes(calls \ {k}, form)
        BY <1>10 DEF NoZonesAnswered
    <2>2. \A c \in calls' : c.what = "zones" => c \in calls
        BY <2>1, TypesAsked DEF About
    <2>3. offer'.zones = {}
        BY <2>1 DEF Typed, TypeOK
    <2> QED BY <1>10, <1>o, <2>2, <2>3 DEF NoZonesAnswered, Regional, OneRegion, Open
<1>11. CASE TypesAnswered
    <2>1. PICK k \in calls, sold \in SUBSET Types :
             /\ offer' = [offer EXCEPT !.types = sold]
             /\ \/ form' = [form EXCEPT !.instanceType = Undef]
                \/ form' = form
                \/ \E t \in sold : form' = [form EXCEPT !.instanceType = t]
             /\ calls' = IF form' = form THEN calls \ {k} ELSE AskImages(calls \ {k}, form')
        BY <1>11 DEF TypesAnswered
    <2>2. form \in Host /\ Open
        BY DEF Typed, TypeOK, Open
    <2>3. form'.zone = form.zone /\ form'.region = form.region /\ offer'.zones = offer.zones
        BY <2>1, <2>2 DEF Host, Typed, TypeOK
    <2>4. \A c \in calls' : c.what = "zones" => c \in calls
        BY <2>1, ImagesAsked DEF About
    <2> QED BY <1>11, <1>o, <2>2, <2>3, <2>4 DEF TypesAnswered, Regional, OneRegion
<1>12. CASE ImagesAnswered
    <2>1. PICK k \in calls : \E found \in SUBSET {k.region} :
             /\ offer' = [offer EXCEPT !.images = found]
             /\ form' = [form EXCEPT !.imageId = IF found = {} THEN Undef ELSE k.region]
             /\ calls' = calls \ {k}
        BY <1>12 DEF ImagesAnswered
    <2>2. form \in Host /\ Open
        BY DEF Typed, TypeOK, Open
    <2>3. form'.zone = form.zone /\ form'.region = form.region /\ offer'.zones = offer.zones
        BY <2>1, <2>2 DEF Host, Typed, TypeOK
    <2> QED BY <1>12, <1>o, <2>1, <2>2, <2>3 DEF ImagesAnswered, Regional, OneRegion
<1>13. CASE UNCHANGED vars
    BY <1>13, <1>o DEF vars, Regional, OneRegion, Open
<1> QED BY <1>1, <1>2, <1>3, <1>4, <1>5, <1>6, <1>7, <1>8, <1>9, <1>10, <1>11, <1>12, <1>13
        DEF Next, Pick, Answers

(* ZoneOfRegion: a zone of another region is saved only by a user who      *)
(* picked a region while zones were being asked for, or in a program built *)
(* with such a zone.                                                       *)
THEOREM ZoneAlwaysOfRegion == Spec => []ZoneOfRegion
<1>1. Init => Typed /\ Regional
    BY InitTyped, ValuesAssumption
    DEF Init, Open, DefaultSettings, BuildOf, Regional, NoStray, OneRegion
<1>2. Typed /\ Regional /\ [Next]_vars => (Typed /\ Regional)'
    BY TypedInductive, RegionalInductive
<1>3. Typed /\ Regional => ZoneOfRegion
    BY DEF Typed, TypeOK, Regional, NoStray, ZoneOfRegion
<1> QED BY <1>1, <1>2, <1>3, PTL DEF Spec
=============================================================================
