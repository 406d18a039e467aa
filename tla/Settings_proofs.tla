--------------------------- MODULE Settings_proofs ---------------------------
(***************************************************************************)
(* That the common settings end up as they were last saved, and that the   *)
(* proxy view is configured unless it was picked in the dropdown, for any  *)
(* hosts, rules and widths and any number of saves at once.                *)
(***************************************************************************)
EXTENDS Settings, TLAPS

Fields == [host : Hosts \cup {NoHost}, bandWidth : Nat, secret : SUBSET Keys, common : Switched]
Saving == [at : {"idle", "asking", "changing"}, want : Switched]

Typed ==
    /\ settings \in Fields /\ disk \in Fields /\ last \in Switched
    /\ save \in [Savers -> Saving] /\ NoSave \in Saving
    /\ autostart \in BOOLEAN /\ timer \in BOOLEAN /\ crossed \in BOOLEAN
    /\ dialog \in Nat

(* Nothing is pending that the disk has not. *)
Backed == timer \/ disk = settings

(* Unless saves crossed, at most one waits; it is about what was last      *)
(* saved, and its switch is in the settings already.                       *)
Alone == ~crossed => \A s, t \in Savers : save[s] # NoSave /\ save[t] # NoSave => s = t

Waiting == ~crossed => \A s \in Savers : save[s] # NoSave =>
    save[s].want = last /\ settings.common.autoStartApp = last.autoStartApp

CommonInv == Typed /\ Backed /\ Alone /\ Waiting /\ CommonAsSaved

LEMMA NoSaveIdle == NoSave.at = "idle"
BY DEF NoSave

LEMMA NoSaveSaving == NoSave \in Saving
<1>1. (CHOOSE x \in Rules : TRUE) \in Rules
    BY SettingsAssumption
<1> QED BY <1>1 DEF NoSave, Saving, Switched

LEMMA InitCommon == Init => CommonInv
<1> SUFFICES ASSUME Init PROVE CommonInv
    OBVIOUS
<1>1. Typed
    <2>1. settings \in DefaultSettings /\ disk = settings /\ last = settings.common
        BY DEF Init
    <2>2. 200 \in Nat
        OBVIOUS
    <2>3. settings \in Fields /\ last \in Switched
        BY <2>1, <2>2 DEF DefaultSettings, Fields, Switched
    <2>4. 0 \in Nat
        OBVIOUS
    <2> QED BY <2>1, <2>3, <2>4, NoSaveSaving DEF Init, Typed
<1>2. settings.common.autoStartApp = FALSE
    BY DEF Init, DefaultSettings
<1> QED BY <1>1, <1>2 DEF Init, CommonInv, Backed, Alone, Waiting, CommonAsSaved, Busy

-----------------------------------------------------------------------------
(* A step that leaves the common settings and their saves alone. *)
LEMMA Elsewhere ==
    ASSUME CommonInv, UNCHANGED <<save, autostart, last, crossed>>,
           settings' \in Fields, settings'.common = settings.common,
           disk' \in Fields, timer' \in BOOLEAN, dialog' \in Nat, Backed'
    PROVE  CommonInv'
<1>1. Typed'
    BY DEF CommonInv, Typed
<1>2. Alone' /\ Waiting' /\ CommonAsSaved'
    BY DEF CommonInv, Alone, Waiting, CommonAsSaved, Busy
<1> QED BY <1>1, <1>2 DEF CommonInv

(* What a change of the settings does to the pending write. *)
LEMMA WatchedBacked ==
    ASSUME CommonInv, Watched, settings' \in Fields
    PROVE  Backed' /\ disk' \in Fields /\ timer' \in BOOLEAN
BY DEF CommonInv, Typed, Watched, Backed

(* A save that comes to its end. *)
LEMMA Finished ==
    ASSUME CommonInv, NEW s \in Savers, save[s] # NoSave, Finish(s)
    PROVE  /\ settings' \in Fields /\ settings'.common \in Switched
           /\ settings'.common.autoStartApp = settings.common.autoStartApp
           /\ settings'.common.rules = save[s].want.rules
           /\ save' = [save EXCEPT ![s] = NoSave]
<1>1. settings \in Fields /\ save[s].want \in Switched
    BY DEF CommonInv, Typed, Saving
<1>2. save[s].want.rules \in Rules
    BY <1>1 DEF Switched
<1> QED BY <1>1, <1>2 DEF Finish, Fields, Switched

LEMMA SameSwitched ==
    ASSUME NEW x \in Switched, NEW y \in Switched,
           x.autoStartApp = y.autoStartApp, x.rules = y.rules
    PROVE  x = y
BY DEF Switched

(* ... with the system as it wants it: then all is as last saved. *)
LEMMA FinishedInv ==
    ASSUME CommonInv, NEW s \in Savers, save[s] # NoSave, Finish(s), Watched,
           autostart' = save[s].want.autoStartApp, UNCHANGED <<last, crossed, dialog>>
    PROVE  CommonInv'
<1>1. /\ settings' \in Fields /\ settings'.common \in Switched
      /\ settings'.common.autoStartApp = settings.common.autoStartApp
      /\ settings'.common.rules = save[s].want.rules
      /\ save' = [save EXCEPT ![s] = NoSave]
    BY Finished
<1>2. Backed' /\ disk' \in Fields /\ timer' \in BOOLEAN
    BY <1>1, WatchedBacked
<1>3. save[s].want \in Switched /\ autostart' \in BOOLEAN /\ last \in Switched
    BY DEF CommonInv, Typed, Saving, Switched
<1>4. Typed'
    BY <1>1, <1>2, <1>3, NoSaveSaving DEF CommonInv, Typed
<1>5. ASSUME ~crossed
      PROVE  /\ \A t \in Savers : save'[t] = NoSave
             /\ settings'.common = last /\ autostart' = last.autoStartApp
    <2>1. save[s].want = last /\ settings.common.autoStartApp = last.autoStartApp
        BY <1>5 DEF CommonInv, Waiting
    <2>2. settings'.common = last
        BY <1>1, <1>3, <2>1, SameSwitched
    <2>3. \A t \in Savers : save'[t] = NoSave
        BY <1>1, <1>5 DEF CommonInv, Alone, Typed
    <2> QED BY <2>1, <2>2, <2>3
<1>6. Alone' /\ Waiting' /\ CommonAsSaved'
    BY <1>5 DEF Alone, Waiting, CommonAsSaved
<1> QED BY <1>2, <1>4, <1>6 DEF CommonInv
(* The view, the dialog, the other pages and the write. *)
LEMMA PagesInv == CommonInv /\ Pages => CommonInv'
<1> SUFFICES ASSUME CommonInv, Pages PROVE CommonInv'
    OBVIOUS
<1>1. UNCHANGED <<settings, save, autostart, dialog, disk, timer, last, crossed>>
    BY DEF Pages, Resize, Menu, Dropdown, Show, PickTab, store
<1> QED BY <1>1, Elsewhere DEF CommonInv, Typed, Backed

LEMMA OtherSavesInv == CommonInv /\ (SaveSecret \/ SaveHost) => CommonInv'
<1> SUFFICES ASSUME CommonInv, SaveSecret \/ SaveHost PROVE CommonInv'
    OBVIOUS
<1>1. Watched /\ UNCHANGED <<save, autostart, dialog, last, crossed>>
    BY DEF SaveSecret, SaveHost
<1>2. settings \in Fields
    BY DEF CommonInv, Typed
<1>3. settings' \in Fields /\ settings'.common = settings.common
    <2>1. CASE SaveSecret
        BY <1>2, <2>1 DEF SaveSecret, Fields
    <2>2. CASE SaveHost
        <3>1. PICK h \in Hosts \cup {NoHost}, b \in Widths \cap 1 .. 200 :
                  settings' = [settings EXCEPT !.host = h, !.bandWidth = b]
            BY <2>2 DEF SaveHost
        <3>2. b \in Nat
            OBVIOUS
        <3> QED BY <1>2, <3>1, <3>2 DEF Fields
    <2> QED BY <2>1, <2>2
<1>4. Backed' /\ disk' \in Fields /\ timer' \in BOOLEAN
    BY <1>1, <1>3, WatchedBacked
<1>5. dialog' \in Nat
    BY <1>1 DEF CommonInv, Typed
<1> QED BY <1>1, <1>3, <1>4, <1>5, Elsewhere

LEMMA AskBandwidthInv == CommonInv /\ AskBandwidth => CommonInv'
<1> SUFFICES ASSUME CommonInv, AskBandwidth PROVE CommonInv'
    OBVIOUS
<1>1. UNCHANGED <<settings, save, autostart, disk, timer, last, crossed>>
    BY DEF AskBandwidth, store
<1>2. dialog' \in Nat
    BY SettingsAssumption DEF AskBandwidth
<1> QED BY <1>1, <1>2, Elsewhere DEF CommonInv, Typed, Backed

LEMMA BandwidthAnsweredInv == CommonInv /\ BandwidthAnswered => CommonInv'
<1> SUFFICES ASSUME CommonInv, BandwidthAnswered PROVE CommonInv'
    OBVIOUS
<1>1. Watched /\ UNCHANGED <<save, autostart, last, crossed>> /\ dialog' \in Nat
    BY DEF BandwidthAnswered
<1>2. settings \in Fields /\ dialog \in Nat
    BY DEF CommonInv, Typed
<1>3. settings' \in Fields /\ settings'.common = settings.common
    BY <1>2 DEF BandwidthAnswered, Fields
<1>4. Backed' /\ disk' \in Fields /\ timer' \in BOOLEAN
    BY <1>1, <1>3, WatchedBacked
<1> QED BY <1>1, <1>3, <1>4, Elsewhere

LEMMA WriteInv == CommonInv /\ Write => CommonInv'
<1> SUFFICES ASSUME CommonInv, Write PROVE CommonInv'
    OBVIOUS
<1>1. /\ UNCHANGED <<settings, save, autostart, dialog, last, crossed>>
      /\ disk' = settings /\ timer' = FALSE
    BY DEF Write
<1> QED BY <1>1, Elsewhere DEF CommonInv, Typed, Backed

-----------------------------------------------------------------------------
(* The common page. *)
LEMMA AskedInv == ASSUME NEW s \in Savers PROVE CommonInv /\ Asked(s) => CommonInv'
<1> SUFFICES ASSUME CommonInv, Asked(s) PROVE CommonInv'
    OBVIOUS
<1>1. /\ save[s].at = "asking" /\ save[s] # NoSave
      /\ Watched /\ UNCHANGED <<autostart, dialog, last, crossed>>
    BY NoSaveIdle DEF Asked
<1>2. CASE autostart = save[s].want.autoStartApp /\ Finish(s)
    BY <1>1, <1>2, FinishedInv
<1>3. CASE save' = [save EXCEPT ![s].at = "changing"] /\ UNCHANGED settings
    <2>1. Backed' /\ disk' \in Fields /\ timer' \in BOOLEAN /\ settings' \in Fields
        BY <1>1, <1>3, WatchedBacked DEF CommonInv, Typed
    <2>2. save \in [Savers -> Saving]
        BY DEF CommonInv, Typed
    <2>3. /\ save' \in [Savers -> Saving] /\ save'[s].want = save[s].want
          /\ \A t \in Savers : t # s => save'[t] = save[t]
        BY <1>3, <2>2 DEF Saving
    <2>4. Typed'
        BY <1>1, <2>1, <2>3 DEF CommonInv, Typed
    <2>5. \A t \in Savers : save'[t] # NoSave => save[t] # NoSave /\ save'[t].want = save[t].want
        BY <1>1, <2>3
    <2>6. Alone' /\ Waiting'
        BY <1>1, <1>3, <2>5 DEF CommonInv, Alone, Waiting
    <2>7. Busy'
        <3>1. save'[s].at = "changing"
            BY <1>3, <2>2 DEF Saving
        <3> QED BY <3>1, NoSaveIdle DEF Busy
    <2> QED BY <2>1, <2>4, <2>6, <2>7 DEF CommonInv, CommonAsSaved
<1> QED BY <1>2, <1>3 DEF Asked

LEMMA ChangedInv == ASSUME NEW s \in Savers PROVE CommonInv /\ Changed(s) => CommonInv'
<1> SUFFICES ASSUME CommonInv, Changed(s) PROVE CommonInv'
    OBVIOUS
<1>1. /\ save[s] # NoSave /\ Finish(s) /\ Watched
      /\ autostart' = save[s].want.autoStartApp /\ UNCHANGED <<dialog, last, crossed>>
    BY NoSaveIdle DEF Changed
<1> QED BY <1>1, FinishedInv

LEMMA SystemFailsInv == ASSUME NEW s \in Savers PROVE CommonInv /\ SystemFails(s) => CommonInv'
<1> SUFFICES ASSUME CommonInv, SystemFails(s) PROVE CommonInv'
    OBVIOUS
<1>1. /\ UNCHANGED <<settings, autostart, dialog, disk, timer, last>>
      /\ save' = [save EXCEPT ![s] = NoSave] /\ crossed'
    BY DEF SystemFails, store, Cross
<1>2. crossed' \in BOOLEAN
    BY DEF SystemFails, Cross, CommonInv, Typed
<1>3. Typed'
    BY <1>1, <1>2 DEF CommonInv, Typed
<1> QED BY <1>1, <1>3 DEF CommonInv, Backed, Alone, Waiting, CommonAsSaved

LEMMA RestartInv == CommonInv /\ Restart => CommonInv'
<1> SUFFICES ASSUME CommonInv, Restart PROVE CommonInv'
    OBVIOUS
<1>1. /\ settings' = disk /\ timer' = FALSE /\ disk' = disk /\ dialog' = 0
      /\ save' = [s \in Savers |-> NoSave] /\ last' = disk.common
      /\ autostart' = autostart /\ crossed' = (crossed \/ Busy \/ timer)
    BY DEF Restart, Cross
<1>2. Typed'
    BY <1>1 DEF CommonInv, Typed, Fields, Busy
<1>3. \A s \in Savers : save'[s] = NoSave
    BY <1>1
<1>4. ~crossed' => settings'.common = last' /\ autostart' = last'.autoStartApp
    BY <1>1 DEF CommonInv, Backed, CommonAsSaved
<1> QED BY <1>1, <1>2, <1>3, <1>4 DEF CommonInv, Backed, Alone, Waiting, CommonAsSaved

LEMMA SaveCommonInv == CommonInv /\ SaveCommon => CommonInv'
<1> SUFFICES ASSUME CommonInv, NEW s \in Savers, NEW want \in Switched, save[s] = NoSave,
                    last' = want, Cross(Busy), Watched, UNCHANGED <<autostart, dialog>>,
                    IF settings.common.autoStartApp = want.autoStartApp
                    THEN settings' = [settings EXCEPT !.common = want] /\ UNCHANGED save
                    ELSE /\ settings' = [settings EXCEPT !.common.autoStartApp = want.autoStartApp]
                         /\ save' = [save EXCEPT ![s] = [at |-> "asking", want |-> want]]
             PROVE  CommonInv'
    BY DEF SaveCommon
<1>1. settings \in Fields /\ settings.common \in Switched /\ save \in [Savers -> Saving]
    BY DEF CommonInv, Typed, Fields
<1>2. /\ crossed' \in BOOLEAN /\ (~crossed' => ~crossed /\ \A t \in Savers : save[t] = NoSave)
    BY DEF Cross, Busy, CommonInv, Typed
<1>3. CASE /\ settings.common.autoStartApp = want.autoStartApp
           /\ settings' = [settings EXCEPT !.common = want] /\ UNCHANGED save
    <2>1. settings' \in Fields /\ settings'.common = want
        BY <1>1, <1>3 DEF Fields
    <2>2. Backed' /\ disk' \in Fields /\ timer' \in BOOLEAN
        BY <2>1, WatchedBacked
    <2>3. Typed'
        BY <1>2, <1>3, <2>1, <2>2 DEF CommonInv, Typed
    <2>4. ~crossed' => autostart = want.autoStartApp
        BY <1>2, <1>3 DEF CommonInv, CommonAsSaved, Busy
    <2>5. Alone' /\ Waiting' /\ CommonAsSaved'
        BY <1>2, <1>3, <2>1, <2>4 DEF Alone, Waiting, CommonAsSaved
    <2> QED BY <2>2, <2>3, <2>5 DEF CommonInv
<1>4. CASE /\ settings' = [settings EXCEPT !.common.autoStartApp = want.autoStartApp]
           /\ save' = [save EXCEPT ![s] = [at |-> "asking", want |-> want]]
    <2>1. settings' \in Fields /\ settings'.common.autoStartApp = want.autoStartApp
        <3>1. want.autoStartApp \in BOOLEAN
            BY DEF Switched
        <3> QED BY <1>1, <1>4, <3>1 DEF Fields, Switched
    <2>2. Backed' /\ disk' \in Fields /\ timer' \in BOOLEAN
        BY <2>1, WatchedBacked
    <2>3. [at |-> "asking", want |-> want] \in Saving
        BY DEF Saving
    <2>4. /\ save' \in [Savers -> Saving] /\ save'[s].want = want /\ save'[s].at = "asking"
          /\ \A t \in Savers : t # s => save'[t] = save[t]
        BY <1>1, <1>4, <2>3
    <2>5. Typed'
        BY <1>2, <2>1, <2>2, <2>4 DEF CommonInv, Typed
    <2>6. Busy'
        BY <2>4, NoSaveIdle DEF Busy
    <2>7. Alone' /\ Waiting'
        BY <1>2, <2>1, <2>4 DEF Alone, Waiting
    <2> QED BY <2>2, <2>5, <2>6, <2>7 DEF CommonInv, CommonAsSaved
<1> QED BY <1>3, <1>4

LEMMA NextCommon == CommonInv /\ [Next]_vars => CommonInv'
<1> SUFFICES ASSUME CommonInv, [Next]_vars PROVE CommonInv'
    OBVIOUS
<1>1. CASE UNCHANGED vars
    BY <1>1, Elsewhere DEF vars, store, CommonInv, Typed, Backed
<1>2. CASE Saves
    BY <1>2, OtherSavesInv, SaveCommonInv, AskedInv, ChangedInv, SystemFailsInv DEF Saves
<1> QED BY <1>1, <1>2, PagesInv, AskBandwidthInv, BandwidthAnsweredInv, WriteInv,
           RestartInv DEF Next

(* Unless a save met another one, failed or was cut off by a restart, the  *)
(* settings and the system are as the user last saved them on the common   *)
(* page as soon as no save is waiting (Common.tsx, save).                  *)
THEOREM CommonAlwaysAsSaved == Spec => []CommonAsSaved
<1>1. CommonInv /\ [Next]_vars => CommonInv'
    <2> SUFFICES ASSUME CommonInv, [Next]_vars PROVE CommonInv'
        OBVIOUS
    <2>1. CASE UNCHANGED vars
        BY <2>1, Elsewhere DEF vars, store, CommonInv, Typed, Backed
    <2>2. CASE Saves
        BY <2>2, OtherSavesInv, SaveCommonInv, AskedInv, ChangedInv, SystemFailsInv DEF Saves
    <2> QED BY <2>1, <2>2, PagesInv, AskBandwidthInv, BandwidthAnsweredInv, WriteInv,
               RestartInv DEF Next
<1>2. CommonInv => CommonAsSaved
    BY DEF CommonInv
<1> QED BY <1>1, <1>2, InitCommon, PTL DEF Spec
-----------------------------------------------------------------------------
(* No save takes keys or a host away that the settings have. *)
LEMMA StaysValid ==
    ASSUME CommonInv, Saves \/ BandwidthAnswered, Valid(settings)
    PROVE  Valid(settings')
<1>1. settings \in Fields
    BY DEF CommonInv, Typed
<1>2. CASE SaveSecret
    BY <1>1, <1>2 DEF SaveSecret, Fields, Valid
<1>3. CASE SaveHost
    BY <1>1, <1>3, SettingsAssumption DEF SaveHost, Fields, Valid
<1>4. CASE SaveCommon
    BY <1>1, <1>4 DEF SaveCommon, Fields, Valid
<1>5. ASSUME NEW s \in Savers, Asked(s) \/ Changed(s) \/ SystemFails(s)
      PROVE  Valid(settings')
    BY <1>1, <1>5 DEF Asked, Changed, SystemFails, Finish, Fields, Valid
<1>6. CASE BandwidthAnswered
    BY <1>1, <1>6 DEF BandwidthAnswered, Fields, Valid
<1> QED BY <1>2, <1>3, <1>4, <1>5, <1>6 DEF Saves

LEMMA StartsConfigured == \A s : Start(s) = "proxy" => Valid(s)
BY DEF Start, Shown, FirstTab

(* Whatever is saved, whenever the app starts again and however the window *)
(* is resized, the proxy view is shown only with keys and a host, unless   *)
(* it was picked in the dropdown (Layout.tsx).                             *)
THEOREM ProxyAlwaysConfigured == Spec => []ProxyIsConfigured
<1>1. Init => ProxyIsConfigured
    BY StartsConfigured DEF Init, ProxyIsConfigured
<1>2. CommonInv /\ ProxyIsConfigured /\ [Next]_vars => ProxyIsConfigured'
    <2> SUFFICES ASSUME CommonInv, ProxyIsConfigured, [Next]_vars PROVE ProxyIsConfigured'
        OBVIOUS
    <2>1. CASE UNCHANGED vars
        BY <2>1 DEF vars, ProxyIsConfigured
    <2>2. CASE Saves \/ BandwidthAnswered
        <3>1. UNCHANGED <<page, unasked>>
            BY <2>2 DEF Saves, SaveSecret, SaveHost, SaveCommon, Asked, Changed,
                        SystemFails, BandwidthAnswered
        <3> QED BY <2>2, <3>1, StaysValid DEF ProxyIsConfigured
    <2>3. CASE Menu
        <3>1. Valid(settings')
            BY <2>3 DEF Menu, Show
        <3> QED BY <3>1 DEF ProxyIsConfigured
    <2>4. CASE Dropdown
        BY <2>4 DEF Dropdown, ProxyIsConfigured
    <2>5. CASE PickTab
        BY <2>5 DEF PickTab, Tabs, ProxyIsConfigured
    <2>8. CASE Resize
        BY <2>8 DEF Resize, ProxyIsConfigured
    <2>6. CASE AskBandwidth \/ Write
        BY <2>6 DEF AskBandwidth, Write, ProxyIsConfigured
    <2>7. CASE Restart
        BY <2>7, StartsConfigured DEF Restart, ProxyIsConfigured
    <2> QED BY <2>1, <2>2, <2>3, <2>4, <2>5, <2>6, <2>7, <2>8 DEF Next, Pages
<1> QED BY <1>1, <1>2, InitCommon, NextCommon, PTL DEF Spec
=============================================================================
