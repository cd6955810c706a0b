------------------------------- MODULE Screens -------------------------------
(***************************************************************************)
(* The settings screens (states/settings.py), with the two background      *)
(* services they drive: the Wi-Fi controller (runtime/wifi_controller.py)  *)
(* and the brightness calibration (runtime/brightness_calibration.py).     *)
(*                                                                         *)
(* The main loop owns the screens: it consumes finished Wi-Fi work in      *)
(* SettingsState.update and treats one button press in handle_input.  Each *)
(* scan, connect, forget and calibration sweep is a thread of its own that *)
(* reports through a status the screens read.  A SettingsState object is   *)
(* dropped when another screen is shown; a sweep it started goes on.       *)
(*                                                                         *)
(* Abstracted: the highlighted row (a press acts on any row of the page),  *)
(* the characters of the password, the levels of a sweep (a sweep is a     *)
(* number of passes), and what is drawn.                                   *)
(***************************************************************************)
EXTENDS Naturals, FiniteSets

CONSTANTS Ssid,        \* names of networks
          NoSsid,      \* no network
          Sweep,       \* calibrations that can be started
          NoSweep,     \* no calibration
          MaxPress     \* button presses other than HOME

ASSUME NoNetwork == NoSsid \notin Ssid
ASSUME NoCalibration == NoSweep \notin Sweep
ASSUME PressBound == MaxPress \in Nat

VARIABLES
  page,      \* page of the settings, "menu" for every other screen
  overlay,   \* what covers the page
  selected,  \* network of the password page
  bySaved,   \* the password page joins through a saved profile
  forgets,   \* network the confirmation is about
  joined,    \* network the device is on
  profiles,  \* networks NetworkManager has a profile of
  listed,    \* the Wi-Fi list: kind of row of every network
  scan,      \* the scan: "idle", "running", or the list it has read
  conn,      \* the connection attempt
  forget,    \* the forget request
  sweep,     \* every calibration: status, cancel event and thread
  mine,      \* calibration of this SettingsState object
  ours,      \* calibrations started by this SettingsState object
  presses    \* presses so far

wifiVars == <<joined, profiles, listed, scan, conn, forget>>
sweepVars == <<sweep, mine, ours>>
pageVars == <<page, overlay, selected, bySaved, forgets>>
screenVars == <<pageVars, wifiVars, sweepVars, presses>>

Pages == {"menu", "settings", "display", "connectivity", "controllers",
          "wifi", "password"}
Overlays == {"none", "bluetooth_qr", "reset_confirm", "wifi_forget_confirm",
             "calibration_warning", "calibration_success"}
RowKind == {"absent", "current", "remembered", "network"}
Attempt == [status: {"idle", "connecting", "success", "error"},
            ssid: Ssid \cup {NoSsid}]
NoAttempt == [status |-> "idle", ssid |-> NoSsid]
Deletion == [status: {"idle", "forgetting", "success", "error"},
             ssid: Ssid \cup {NoSsid}]
Passes == 2
Calibration == [status: {"none", "running", "cancelled", "success", "error"},
                cancel: BOOLEAN,
                thread: {"none", "pass", "restore", "save", "saved", "over"},
                passes: 0 .. Passes]

(* The rows a scan makes of what NetworkManager tells it. *)
KnownRows == [s \in Ssid |-> IF s = joined THEN "current"
                         ELSE IF s \in profiles THEN "remembered"
                         ELSE "network"]

Running == mine # NoSweep /\ sweep[mine].status = "running"

(* What is joined, asked for and deleted is a network.                     *)
NamedNetworks ==
  /\ page = "password" => selected \in Ssid
  /\ conn.status = "connecting" => conn.ssid \in Ssid
  /\ forget.status \in {"forgetting", "success"} => forget.ssid \in Ssid

(* An overlay covers the page it belongs to, also the one that a sweep     *)
(* thread puts up, and the confirmation of a deletion names a network.     *)
OverlayFits ==
  /\ overlay = "bluetooth_qr" => page = "connectivity"
  /\ overlay = "reset_confirm" => page = "settings"
  /\ overlay = "wifi_forget_confirm" => page = "wifi" /\ forgets \in Ssid
  /\ overlay = "calibration_warning" => page = "display" /\ ~Running
  /\ overlay = "calibration_success"
       => page = "display" /\ (Running => sweep[mine].thread = "saved")
  /\ Running => page = "display"

(* A sweep that is shown as running has a thread that will end it; while   *)
(* it runs the page ignores everything but its cancellation.               *)
SweepHasThread == \A k \in Sweep :
  /\ sweep[k].status = "running" => sweep[k].thread \in {"pass", "restore", "save", "saved"}
  /\ sweep[k].thread \in {"save", "saved"} => sweep[k].status = "running"

(* Of the sweeps a SettingsState object has started one runs at most, and  *)
(* it is the one the buttons are about.                                    *)
OneSweepRuns == \A k \in ours : sweep[k].status = "running" => k = mine

ScreensTypeOK ==
  /\ page \in Pages
  /\ overlay \in Overlays
  /\ selected \in Ssid \cup {NoSsid}
  /\ bySaved \in BOOLEAN
  /\ forgets \in Ssid \cup {NoSsid}
  /\ joined \in Ssid \cup {NoSsid}
  /\ profiles \in SUBSET Ssid
  /\ listed \in [Ssid -> RowKind]
  /\ scan \in [at: {"idle", "running", "read"}, rows: [Ssid -> RowKind]]
  /\ conn \in Attempt
  /\ forget \in Deletion
  /\ sweep \in [Sweep -> Calibration]
  /\ mine \in ours \cup {NoSweep}
  /\ ours \in SUBSET Sweep
  /\ presses \in 0 .. MaxPress
  /\ NamedNetworks /\ OverlayFits /\ SweepHasThread /\ OneSweepRuns

Fresh == [status |-> "none", cancel |-> FALSE, thread |-> "none", passes |-> 0]
Unlisted == [s \in Ssid |-> "absent"]
ScanIdle == [at |-> "idle", rows |-> Unlisted]

ScreensInit ==
  /\ page = "menu" /\ overlay = "none" /\ selected = NoSsid
  /\ bySaved = FALSE /\ forgets = NoSsid
  /\ joined \in Ssid \cup {NoSsid}
  /\ profiles = {joined} \cap Ssid
  /\ listed = Unlisted /\ scan = ScanIdle
  /\ conn = NoAttempt /\ forget = NoAttempt
  /\ sweep = [k \in Sweep |-> Fresh] /\ mine = NoSweep /\ ours = {}
  /\ presses = 0

Pressed == presses < MaxPress /\ presses' = presses + 1
Shown(p) == page = p /\ overlay = "none"

-----------------------------------------------------------------------------
(* The Wi-Fi controller: single flight per kind of work, under its lock.   *)

ScanAsked == IF scan.at = "idle" THEN [scan EXCEPT !.at = "running"] ELSE scan
ClearConnection(c) == IF c.status = "connecting" THEN c ELSE NoAttempt
ClearForget(f) == IF f.status = "forgetting" THEN f ELSE NoAttempt
ConnectAsked(c, s) == IF c.status = "connecting" THEN c
                      ELSE [status |-> "connecting", ssid |-> s]
ForgetAsked(f, s) == IF f.status = "forgetting" THEN f
                     ELSE [status |-> "forgetting", ssid |-> s]

(* The scan worker has its answer from NetworkManager. *)
WifiScanReads ==
  /\ scan.at = "running"
  /\ scan' = [at |-> "read", rows |-> KnownRows]
  /\ UNCHANGED <<pageVars, joined, profiles, listed, conn, forget, sweepVars,
                 presses>>

WifiScanEnds_KeepsFlag ==
  /\ \/ scan.at = "read" /\ listed' = scan.rows /\ scan' = ScanIdle
     \/ /\ scan.at \in {"running", "read"} /\ listed' = listed
        /\ scan' = [ScanIdle EXCEPT !.at = "lost"]
  /\ UNCHANGED <<pageVars, joined, profiles, conn, forget, sweepVars, presses>>

(* The scan worker stores its answer, or only its failure. *)
WifiScanEnds ==
  /\ \/ scan.at = "read" /\ listed' = scan.rows
     \/ scan.at \in {"running", "read"} /\ listed' = listed
  /\ scan' = ScanIdle
  /\ UNCHANGED <<pageVars, joined, profiles, conn, forget, sweepVars, presses>>

(* The connect worker ends; NetworkManager keeps a profile of a network it *)
(* joined.                                                                 *)
WifiConnectEnds ==
  /\ conn.status = "connecting"
  /\ \/ /\ conn' = [conn EXCEPT !.status = "success"]
        /\ joined' = conn.ssid
        /\ profiles' = profiles \cup {conn.ssid}
     \/ /\ conn' = [conn EXCEPT !.status = "error"]
        /\ UNCHANGED <<joined, profiles>>
  /\ UNCHANGED <<pageVars, listed, scan, forget, sweepVars, presses>>

(* The forget worker ends. *)
WifiForgetEnds ==
  /\ forget.status = "forgetting"
  /\ \/ /\ forget' = [forget EXCEPT !.status = "success"]
        /\ profiles' = profiles \ {forget.ssid}
        /\ joined' = IF joined = forget.ssid THEN NoSsid ELSE joined
     \/ /\ forget' = [forget EXCEPT !.status = "error"]
        /\ UNCHANGED <<joined, profiles>>
  /\ UNCHANGED <<pageVars, listed, scan, conn, sweepVars, presses>>

-----------------------------------------------------------------------------
(* The calibration thread of a sweep.                                      *)

SetSweep(k, s) == sweep' = [sweep EXCEPT ![k] = s]

(* One pass at one brightness, or the cancel event seen between passes:    *)
(* the status is published before the finally block restores the display.  *)
SweepPasses(k) ==
  /\ sweep[k].thread = "pass"
  /\ IF sweep[k].cancel
       THEN SetSweep(k, [sweep[k] EXCEPT !.status = "cancelled",
                                         !.thread = "restore"])
     ELSE IF sweep[k].passes < Passes
       THEN SetSweep(k, [sweep[k] EXCEPT !.passes = @ + 1])
     ELSE SetSweep(k, [sweep[k] EXCEPT !.thread = "restore"])
  /\ UNCHANGED <<pageVars, wifiVars, mine, ours, presses>>

(* The reader of the darts or the brightness setter raises. *)
SweepRaises(k) ==
  /\ sweep[k].thread = "pass"
  /\ SetSweep(k, [sweep[k] EXCEPT !.status = "error", !.thread = "restore"])
  /\ UNCHANGED <<pageVars, wifiVars, mine, ours, presses>>

(* The brightness from before is set again, whatever ended the sweep. *)
SweepRestores(k) ==
  /\ sweep[k].thread = "restore"
  /\ SetSweep(k, [sweep[k] EXCEPT !.thread =
                    IF sweep[k].status = "running" THEN "save" ELSE "over"])
  /\ UNCHANGED <<pageVars, wifiVars, mine, ours, presses>>

SweepSaves_StaysRunning(k) ==
  /\ sweep[k].thread = "save"
  /\ \/ /\ SetSweep(k, [sweep[k] EXCEPT !.thread = "saved"])
        /\ overlay' = IF k \in ours THEN "calibration_success" ELSE overlay
     \/ /\ SetSweep(k, [sweep[k] EXCEPT !.thread = "over"])
        /\ UNCHANGED overlay
  /\ UNCHANGED <<page, selected, bySaved, forgets, wifiVars, mine, ours, presses>>

(* on_success writes the file and covers the page of its own SettingsState *)
(* object; a file that cannot be written ends the sweep with an error.     *)
SweepSaves(k) ==
  /\ sweep[k].thread = "save"
  /\ \/ /\ SetSweep(k, [sweep[k] EXCEPT !.thread = "saved"])
        /\ overlay' = IF k \in ours THEN "calibration_success" ELSE overlay
     \/ /\ SetSweep(k, [sweep[k] EXCEPT !.status = "error", !.thread = "over"])
        /\ UNCHANGED overlay
  /\ UNCHANGED <<page, selected, bySaved, forgets, wifiVars, mine, ours, presses>>

(* The status says so only after that.                                     *)
SweepSucceeds(k) ==
  /\ sweep[k].thread = "saved"
  /\ SetSweep(k, [sweep[k] EXCEPT !.status = "success", !.thread = "over"])
  /\ UNCHANGED <<pageVars, wifiVars, mine, ours, presses>>

-----------------------------------------------------------------------------
(* The screens.                                                            *)

(* Another screen is shown and this SettingsState object is dropped. *)
LeaveSettings ==
  /\ page' = "menu" /\ overlay' = "none" /\ selected' = NoSsid
  /\ bySaved' = FALSE /\ forgets' = NoSsid
  /\ mine' = NoSweep /\ ours' = {}

(* A game is launched or the widgets are reloaded from elsewhere. *)
TakenAway ==
  /\ page # "menu" /\ Pressed
  /\ LeaveSettings
  /\ UNCHANGED <<wifiVars, sweep>>

(* SettingsState.update consumes what the Wi-Fi workers have finished. *)
ConsumeConnection ==
  /\ page \in {"wifi", "password"}
  /\ conn.status = "success" /\ conn.ssid = selected
  /\ page' = "wifi"
  /\ conn' = NoAttempt /\ scan' = ScanAsked
  /\ UNCHANGED <<overlay, selected, bySaved, forgets, joined, profiles, listed,
                 forget, sweepVars, presses>>

ConsumeForget ==
  /\ page = "wifi" /\ forget.status = "success"
  /\ forget' = NoAttempt /\ scan' = ScanAsked
  /\ overlay' = "none" /\ forgets' = NoSsid
  /\ UNCHANGED <<page, selected, bySaved, joined, profiles, listed, conn,
                 sweepVars, presses>>

(* A on the main menu, on the settings and on the connectivity page. *)
OpenPage ==
  /\ overlay = "none" /\ ~Running /\ Pressed
  /\ \/ page = "menu" /\ page' = "settings"
     \/ page = "settings" /\ page' \in {"display", "connectivity"}
     \/ page = "connectivity" /\ page' = "controllers"
  /\ UNCHANGED <<overlay, selected, bySaved, forgets, wifiVars, sweepVars>>

EnterWifi ==
  /\ Shown("connectivity") /\ Pressed
  /\ page' = "wifi"
  /\ conn' = ClearConnection(conn) /\ scan' = ScanAsked
  /\ UNCHANGED <<overlay, selected, bySaved, forgets, joined, profiles, listed,
                 forget, sweepVars>>

OpenOverlay ==
  /\ Pressed
  /\ \/ Shown("settings") /\ overlay' = "reset_confirm"
     \/ Shown("connectivity") /\ overlay' = "bluetooth_qr"
     \/ Shown("display") /\ ~Running /\ overlay' = "calibration_warning"
  /\ UNCHANGED <<page, selected, bySaved, forgets, wifiVars, sweepVars>>

(* A on a row of the Wi-Fi list. *)
ChooseCurrent(s) ==
  /\ Shown("wifi") /\ listed[s] = "current" /\ Pressed
  /\ overlay' = "wifi_forget_confirm" /\ forgets' = s
  /\ UNCHANGED <<page, selected, bySaved, wifiVars, sweepVars>>

ChooseRemembered(s) ==
  /\ Shown("wifi") /\ listed[s] = "remembered" /\ Pressed
  /\ page' = "password" /\ selected' = s /\ bySaved' = TRUE
  /\ conn' = ConnectAsked(ClearConnection(conn), s)
  /\ UNCHANGED <<overlay, forgets, joined, profiles, listed, scan, forget,
                 sweepVars>>

ChooseNetwork(s) ==
  /\ Shown("wifi") /\ listed[s] = "network" /\ Pressed
  /\ page' = "password" /\ selected' = s /\ bySaved' = FALSE
  /\ conn' = ClearConnection(conn)
  /\ UNCHANGED <<overlay, forgets, joined, profiles, listed, scan, forget,
                 sweepVars>>

Rescan ==
  /\ Shown("wifi") /\ Pressed
  /\ scan' = ScanAsked
  /\ UNCHANGED <<pageVars, joined, profiles, listed, conn, forget, sweepVars>>

(* A on the password page: refused while this network is being joined. *)
JoinNetwork ==
  /\ Shown("password") /\ ~bySaved
  /\ ~(conn.status = "connecting" /\ conn.ssid = selected)
  /\ Pressed
  /\ conn' = ConnectAsked(conn, selected)
  /\ UNCHANGED <<pageVars, joined, profiles, listed, scan, forget, sweepVars>>

(* A on the confirmations. *)
ConfirmReset ==
  /\ overlay = "reset_confirm" /\ Pressed
  /\ overlay' = "none"
  /\ UNCHANGED <<page, selected, bySaved, forgets, wifiVars, sweepVars>>

ConfirmForget ==
  /\ overlay = "wifi_forget_confirm" /\ forget.status = "idle" /\ Pressed
  /\ forget' = ForgetAsked(forget, forgets)
  /\ UNCHANGED <<pageVars, joined, profiles, listed, scan, conn, sweepVars>>

StartCalibration(k) ==
  /\ overlay = "calibration_warning" /\ sweep[k] = Fresh /\ Pressed
  /\ overlay' = "none"
  /\ SetSweep(k, [Fresh EXCEPT !.status = "running", !.thread = "pass"])
  /\ mine' = k /\ ours' = ours \cup {k}
  /\ UNCHANGED <<page, selected, bySaved, forgets, wifiVars>>

AcknowledgeCalibration ==
  /\ overlay = "calibration_success"
  /\ LeaveSettings
  /\ UNCHANGED <<wifiVars, sweep, presses>>

(* B and HOME close an overlay they are allowed to close. *)
Closable == \/ overlay \in {"bluetooth_qr", "reset_confirm", "calibration_warning"}
            \/ overlay = "wifi_forget_confirm" /\ forget.status # "forgetting"

CloseOverlay ==
  /\ Closable
  /\ overlay' = "none"
  /\ IF overlay = "wifi_forget_confirm"
       THEN forget' = ClearForget(forget) /\ forgets' = NoSsid
       ELSE UNCHANGED <<forget, forgets>>
  /\ UNCHANGED <<page, selected, bySaved, joined, profiles, listed, scan, conn,
                 sweepVars>>

(* B and HOME cancel a sweep that runs and do nothing else. *)
CancelCalibration ==
  /\ overlay = "none" /\ Running
  /\ SetSweep(mine, [sweep[mine] EXCEPT !.cancel = TRUE])
  /\ UNCHANGED <<pageVars, wifiVars, mine, ours>>

LeaveBy(p) == CASE p = "display" -> "settings"
                [] p = "connectivity" -> "settings"
                [] p \in {"controllers", "wifi"} -> "connectivity"
                [] p = "password" -> "wifi"

GoBack ==
  /\ overlay = "none" /\ ~Running
  /\ \/ /\ page \in {"display", "connectivity", "controllers", "wifi", "password"}
        /\ page' = LeaveBy(page)
        /\ UNCHANGED <<overlay, selected, bySaved, forgets, mine, ours>>
     \/ page = "settings" /\ LeaveSettings
  /\ UNCHANGED <<wifiVars, sweep>>

PressB == Pressed /\ (CloseOverlay \/ CancelCalibration \/ GoBack)

PressHome ==
  /\ \/ CloseOverlay
     \/ CancelCalibration
     \/ /\ overlay = "none" /\ ~Running /\ page # "menu"
        /\ LeaveSettings /\ UNCHANGED <<wifiVars, sweep>>
  /\ UNCHANGED presses

-----------------------------------------------------------------------------
Consume == ConsumeConnection \/ ConsumeForget

SweepStep(k) ==
  \/ SweepPasses(k) \/ SweepRaises(k) \/ SweepRestores(k)
  \/ SweepSaves(k) \/ SweepSucceeds(k)

WifiWork == WifiScanReads \/ WifiScanEnds \/ WifiConnectEnds \/ WifiForgetEnds

PressA ==
  \/ OpenPage \/ EnterWifi \/ OpenOverlay \/ Rescan \/ JoinNetwork
  \/ ConfirmReset \/ ConfirmForget \/ AcknowledgeCalibration
  \/ \E s \in Ssid : ChooseCurrent(s) \/ ChooseRemembered(s) \/ ChooseNetwork(s)
  \/ \E k \in Sweep : StartCalibration(k)

ScreensNext ==
  \/ PressA \/ PressB \/ PressHome \/ TakenAway
  \/ Consume \/ WifiWork
  \/ \E k \in Sweep : SweepStep(k)

(* Every worker thread ends; a user who wants to leave keeps pressing HOME *)
(* and acknowledges the result of a calibration.                           *)
ScreensFairness ==
  /\ WF_screenVars(WifiScanReads \/ WifiScanEnds)
  /\ WF_screenVars(WifiConnectEnds)
  /\ WF_screenVars(WifiForgetEnds)
  /\ WF_screenVars(Consume)
  /\ \A k \in Sweep : WF_screenVars(SweepStep(k))
  /\ WF_screenVars(PressHome)
  /\ WF_screenVars(AcknowledgeCalibration)

ScreensSpec == ScreensInit /\ [][ScreensNext]_screenVars /\ ScreensFairness

(* A user who keeps pressing HOME, and A on the result of a calibration,   *)
(* gets back to the menu from every page and overlay, whatever the scan,   *)
(* the connection, the forget and the sweep are doing: the confirmation    *)
(* ignores HOME while a profile is being deleted and the display page      *)
(* while a sweep runs, so both must end in every outcome                   *)
(* (states/settings.py handle_input).  And every scan and connection       *)
(* attempt is answered, and its flag released for the next one, failures   *)
(* included (runtime/wifi_controller.py).                                  *)
UserIsAnswered ==
  /\ []<>(page = "menu")
  /\ []<>(scan.at = "idle")
  /\ []<>(conn.status # "connecting")
=============================================================================
