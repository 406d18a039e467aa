------------------------------- MODULE Settings -------------------------------
(***************************************************************************)
(* globalSettings and who writes it: the keys page, the host page and the  *)
(* common page of src/views/settings, the bandwidth dialog of the proxy    *)
(* view, and src/store/settings.ts, which loads the settings from the disk *)
(* and writes them back in a timeout after a change.  The app may be quit, *)
(* killed or reloaded at any moment.                                       *)
(*                                                                         *)
(* The host page saves its fields as a whole, see InstanceForm.  Of the    *)
(* common page the switch of the autostart is told apart; the rules, the   *)
(* mode and the applications are one value.  autoProxy is saved at once,   *)
(* before any await, and left out.  The cloud, the disk and the list of    *)
(* programs the system starts by itself (tauri-plugin-autostart) are       *)
(* external.                                                               *)
(***************************************************************************)
EXTENDS Naturals

CONSTANTS
    Hosts,      \* what the host page may save: region, zone, type, image...
    NoHost,     \* ... and what DefaultSettings have there: no image
    Rules,      \* the proxy rules, mode and applications
    Widths,     \* the bandwidths considered, in Mbps
    Savers      \* bound: saves of the common page under way at once

ASSUME SettingsAssumption ==
    /\ NoHost \notin Hosts /\ Rules # {}
    /\ 200 \in Widths /\ Widths \subseteq 1 .. 1000

VARIABLES
    narrow,     \* the window has the dropdown instead of the menu
    unasked,    \* the view shown was picked in the dropdown
    settings,   \* globalSettings
    page,       \* the view shown, of the settings the tab
    save,       \* the saves of the common page that wait for the system
    autostart,  \* whether the system starts the program by itself
    dialog,     \* the bandwidth the dialog has asked the cloud for, or 0
    disk,       \* the settings that the next start will load
    timer,      \* tm: the timeout that writes them is pending
    last,       \* what the user last saved on the common page
    crossed     \* a save met another one, failed, or was cut off

store == <<disk, timer>>
vars  == <<narrow, unasked, settings, page, save, autostart, dialog, store, last, crossed>>

Tabs     == {"secret", "instance", "common"}
Views    == {"proxy", "logs", "settings"}
Switched == [autoStartApp : BOOLEAN, rules : Rules]
NoSave   == [at |-> "idle", want |-> [autoStartApp |-> FALSE, rules |-> CHOOSE x \in Rules : TRUE]]

(* Each of the two keys may be a setting of the build. *)
Keys == {"secretId", "secretKey"}

DefaultSettings == [host : {NoHost}, bandWidth : {200}, secret : SUBSET Keys,
                    common : [autoStartApp : {FALSE}, rules : Rules]]

(* validateSettings: keys and an image; nothing is null once it was saved. *)
Valid(s) == s.secret = Keys /\ s.host # NoHost

(* SettingsView, the tab shown first. *)
FirstTab(s) == IF "secretKey" \in s.secret THEN "instance" ELSE "secret"

Shown(view, s) == IF view = "settings" THEN FirstTab(s) ELSE view
Start(s)       == Shown(IF Valid(s) THEN "proxy" ELSE "settings", s)

(* The watcher of globalSettings starts the timeout again at each change.  *)
Watched == timer' = (timer \/ settings' # settings) /\ UNCHANGED disk

(* The timeout: the settings as they are now go to the store and its file. *)
Write ==
    /\ timer
    /\ disk' = settings /\ timer' = FALSE
    /\ UNCHANGED <<narrow, unasked, settings, page, save, autostart, dialog, last, crossed>>

-----------------------------------------------------------------------------
(* The window is resized, the phone is turned: the style sheet shows the   *)
(* menu or the dropdown by the present width, and the view stays.          *)
Resize ==
    /\ narrow' = ~narrow
    /\ UNCHANGED <<unasked, settings, page, save, autostart, dialog, store, last, crossed>>

(* The view that is shown already stays as it is. *)
Show(view) ==
    /\ page' = IF view = "settings" /\ page \in Tabs THEN page ELSE Shown(view, settings)
    /\ UNCHANGED <<narrow, settings, save, autostart, dialog, store, last, crossed>>

(* The menu on the left, and the dropdown of a narrow window, which does   *)
(* not ask validateSettings.                                               *)
Menu     == ~narrow /\ Valid(settings) /\ unasked' = FALSE /\ \E v \in Views : Show(v)
Dropdown == narrow /\ unasked' = TRUE /\ \E v \in Views : Show(v)

PickTab == \E t \in Tabs \ {page} :
    /\ page \in Tabs
    /\ t = "secret" \/ "secretKey" \in settings.secret
    /\ page' = t
    /\ UNCHANGED <<narrow, unasked, settings, save, autostart, dialog, store, last, crossed>>

(* Both keys have at least one character. *)
SaveSecret ==
    /\ page = "secret"
    /\ settings' = [settings EXCEPT !.secret = Keys]
    /\ Watched
    /\ UNCHANGED <<narrow, unasked, page, save, autostart, dialog, last, crossed>>

(* The schema of the host page allows less than the bandwidth dialog, and  *)
(* no image where there was none: no field goes back to ''.                *)
SaveHost == \E h \in Hosts \cup {NoHost}, b \in Widths \cap 1 .. 200 :
    /\ page = "instance"
    /\ h = NoHost => settings.host = NoHost
    /\ settings' = [settings EXCEPT !.host = h, !.bandWidth = b]
    /\ Watched
    /\ UNCHANGED <<narrow, unasked, page, save, autostart, dialog, last, crossed>>

-----------------------------------------------------------------------------
(* Common.tsx, save: the switch goes into the settings first, then the     *)
(* system is asked and told, then the rest is saved.                       *)
Busy     == \E s \in Savers : save[s] # NoSave
Cross(b) == crossed' = (crossed \/ b)

Finish(s) ==
    /\ settings' = [settings EXCEPT !.common.rules = save[s].want.rules]
    /\ save' = [save EXCEPT ![s] = NoSave]

(* Mutant: the system is only told when the switch is turned on. *)
OnlyTurnedOn == \E s \in Savers, want \in Switched :
    /\ page = "common" /\ save[s] = NoSave
    /\ last' = want /\ Cross(Busy)
    /\ IF settings.common.autoStartApp \/ ~want.autoStartApp
       THEN settings' = [settings EXCEPT !.common = want] /\ UNCHANGED save
       ELSE /\ settings' = [settings EXCEPT !.common.autoStartApp = TRUE]
            /\ save' = [save EXCEPT ![s] = [at |-> "asking", want |-> want]]
    /\ Watched
    /\ UNCHANGED <<narrow, unasked, page, autostart, dialog>>

SaveCommon == \E s \in Savers, want \in Switched :
    /\ page = "common" /\ save[s] = NoSave
    /\ last' = want /\ Cross(Busy)
    /\ IF settings.common.autoStartApp = want.autoStartApp
       THEN settings' = [settings EXCEPT !.common = want] /\ UNCHANGED save
       ELSE /\ settings' = [settings EXCEPT !.common.autoStartApp = want.autoStartApp]
            /\ save' = [save EXCEPT ![s] = [at |-> "asking", want |-> want]]
    /\ Watched
    /\ UNCHANGED <<narrow, unasked, page, autostart, dialog>>

(* isEnabled; enable or disable only where it makes a difference. *)
Asked(s) ==
    /\ save[s].at = "asking"
    /\ \/ autostart = save[s].want.autoStartApp /\ Finish(s)
       \/ /\ autostart # save[s].want.autoStartApp
          /\ save' = [save EXCEPT ![s].at = "changing"]
          /\ UNCHANGED settings
    /\ Watched
    /\ UNCHANGED <<narrow, unasked, page, autostart, dialog, last, crossed>>

Changed(s) ==
    /\ save[s].at = "changing"
    /\ autostart' = save[s].want.autoStartApp
    /\ Finish(s)
    /\ Watched
    /\ UNCHANGED <<narrow, unasked, page, dialog, last, crossed>>

(* The promise of the plugin is rejected: nothing catches it. *)
SystemFails(s) ==
    /\ save[s] # NoSave
    /\ save' = [save EXCEPT ![s] = NoSave]
    /\ Cross(TRUE)
    /\ UNCHANGED <<narrow, unasked, settings, page, autostart, dialog, store, last>>

-----------------------------------------------------------------------------
(* The bandwidth dialog: the cloud is told, then the setting follows. *)
AskBandwidth == \E b \in Widths :
    /\ page = "proxy" /\ dialog = 0
    /\ dialog' = b
    /\ UNCHANGED <<narrow, unasked, settings, page, save, autostart, store, last, crossed>>

BandwidthAnswered ==
    /\ dialog # 0
    /\ dialog' = 0
    /\ \/ settings' = [settings EXCEPT !.bandWidth = dialog]
       \/ UNCHANGED settings
    /\ Watched
    /\ UNCHANGED <<narrow, unasked, page, save, autostart, last, crossed>>

(* Mutant: the view opens before the settings are loaded. *)
RestartEarly ==
    /\ settings' = disk /\ timer' = FALSE /\ UNCHANGED disk
    /\ page' = Start([disk EXCEPT !.host = settings.host])
    /\ save' = [s \in Savers |-> NoSave] /\ dialog' = 0
    /\ last' = disk.common
    /\ Cross(Busy \/ timer)
    /\ unasked' = FALSE /\ UNCHANGED <<narrow, autostart>>

(* Quit, kill or reload: what was not written is lost, and the settings    *)
(* are read from the disk before the first view opens.                     *)
Restart ==
    /\ settings' = disk /\ timer' = FALSE /\ UNCHANGED disk
    /\ page' = Start(disk)
    /\ save' = [s \in Savers |-> NoSave] /\ dialog' = 0
    /\ last' = disk.common
    /\ Cross(Busy \/ timer)
    /\ unasked' = FALSE /\ UNCHANGED <<narrow, autostart>>
-----------------------------------------------------------------------------
Init ==
    /\ narrow \in BOOLEAN /\ unasked = FALSE
    /\ settings \in DefaultSettings
    /\ disk = settings /\ timer = FALSE
    /\ page = Start(settings)
    /\ save = [s \in Savers |-> NoSave] /\ autostart = FALSE
    /\ dialog = 0
    /\ last = settings.common /\ crossed = FALSE

Pages == Resize \/ Menu \/ Dropdown \/ PickTab
Saves == \/ SaveSecret \/ SaveHost \/ SaveCommon
         \/ \E s \in Savers : Asked(s) \/ Changed(s) \/ SystemFails(s)

Next == \/ Pages \/ Saves \/ AskBandwidth \/ BandwidthAnswered
        \/ Write \/ Restart

Spec == Init /\ [][Next]_vars

-----------------------------------------------------------------------------
(* When no save is under way, the system starts the program exactly if the *)
(* user last said so, and the rules are the ones last saved: unless a save *)
(* was pressed while another waited (the older one then writes its rules   *)
(* over the newer ones), the system failed, or the app was ended before    *)
(* the settings were written (Common.tsx, save; store/settings.ts).        *)
CommonAsSaved ==
    ~Busy /\ ~crossed =>
        /\ settings.common = last
        /\ autostart = last.autoStartApp

(* Whatever was saved and lost again in a restart, in a window of whatever *)
(* width: the proxy view, which calls the cloud with the keys as soon as   *)
(* it is mounted and creates hosts on its own, is only shown with keys and *)
(* a host to ask for.  The exception is the dropdown, which does not ask   *)
(* validateSettings: the view picked there stays when the window is        *)
(* widened and has the menu again (Layout.tsx).                            *)
ProxyIsConfigured == page = "proxy" /\ ~unasked => Valid(settings)
=============================================================================
