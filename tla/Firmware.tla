-------------------------------- MODULE Firmware -------------------------------
(***************************************************************************)
(* Firmware updates: who runs them, what they do to the files of the       *)
(* device, and what they tell.                                             *)
(*                                                                         *)
(* An update runs in the main process for the cloud row                    *)
(* (runtime/remote_device_config.py) or for a websocket request, in a cron *)
(* job (check_and_update.py) or in the MCP server (mcp_server/git_ops.py). *)
(* Each resets the repository to the commit of the remote, runs update.sh, *)
(* which brings what is installed in line with it, and restarts the        *)
(* services; on a failure it goes back to the commit it started from and   *)
(* runs update.sh again (python_websocket/git_operations.py).              *)
(*                                                                         *)
(* /run/dartsnut/upgrade_in_progress tells the other programs that an      *)
(* update works, the pending marker asks for a repair at the next boot,    *)
(* and a banner stays on the display while the main process updates        *)
(* (runtime/snackbar_display.py).                                          *)
(***************************************************************************)
EXTENDS Naturals

CONSTANT
  MaxFirmwareEvent   \* bound: releases, requests, outages and messages on the display

ASSUME FirmwareAssumption == MaxFirmwareEvent \in Nat

Updater    == {"remote", "request", "cron", "mcp"}
InMain     == {"remote", "request"}   \* run in the main process, with a banner
Commit     == {"old", "new"}
Labels     == {"idle", "fetch", "run", "terminal", "restart", "rerun"}
NoUpdate   == [pc |-> "idle", saved |-> "old", told |-> FALSE]
NoBanner   == "none"
OtherText  == "text"                  \* a message that goes away by itself

VARIABLES
  head,       \* the commit of the repository
  installed,  \* the commit whose files and packages are installed, or "partial"
  released,   \* the commit of the remote
  upgrading,  \* /run/dartsnut/upgrade_in_progress
  marker,     \* the markers of update_repair.py
  updater,    \* each update: its step, the commit it started from, and whether it has called
              \* before_terminal_action (_call_once)
  repair,     \* dartsnut_update_repair.service, which runs after a boot
  banner,     \* the display: whose persistent banner, or another text
  wanted,     \* firmware.update of the row
  clearing,   \* a patch that clears it waits in the outbox
  fresh,      \* startup_firmware_version has not been published
  cut,        \* an update has ended halfway with no rollback: by a reboot, or by an error
              \* that is no failed command once the files are those of the new commit
  overlapped, \* an update or the repair began while another was at work
  hindered,   \* something is wrong that makes updates raise as long as it lasts: a branch
              \* that cannot be told, git or a child process that cannot be run
  fevents

firmwareVars == <<head, installed, released, upgrading, marker, updater, repair, banner,
                  wanted, clearing, fresh, cut, overlapped, hindered, fevents>>
row2 == <<wanted, clearing, fresh>>
boot == <<repair, cut, hindered>>

Working(u) == updater[u].pc \in {"fetch", "run", "rerun"}
AtWork     == repair = "run" \/ \E u \in Updater : updater[u].pc # "idle"
\* Nothing keeps two apart: _perform_update_locked takes no lock, and one would not reach
\* the cron job, the MCP server and the repair.
Overlaps   == overlapped' = (overlapped \/ AtWork)
Idles(u)   == updater' = [updater EXCEPT ![u] = NoUpdate]
Goto(u, pc) == updater' = [updater EXCEPT ![u].pc = pc]
FirmwareEvent == fevents < MaxFirmwareEvent /\ fevents' = fevents + 1

FirmwareInit ==
  /\ head = "old" /\ installed = "old" /\ released = "old"
  /\ upgrading = FALSE /\ marker = FALSE
  /\ updater = [u \in Updater |-> NoUpdate] /\ repair = "idle"
  /\ banner = NoBanner /\ wanted = FALSE /\ clearing = FALSE /\ fresh = TRUE
  /\ cut = FALSE /\ overlapped = FALSE /\ hindered \in BOOLEAN /\ fevents = 0
--------------------------------------------------------------------------------
Release ==
  /\ FirmwareEvent /\ released = "old" /\ released' = "new"
  /\ UNCHANGED <<head, installed, upgrading, marker, updater, boot, banner, row2, overlapped>>

\* What makes updates raise comes, or is put right.
Hinder ==
  /\ FirmwareEvent /\ hindered' = ~hindered
  /\ UNCHANGED <<head, installed, released, upgrading, marker, updater, repair, cut, banner, row2,
                 overlapped>>

\* The app asks for an update; the patch of the device clears the request.
AppAsks ==
  /\ FirmwareEvent /\ ~wanted /\ wanted' = TRUE
  /\ UNCHANGED <<head, installed, released, upgrading, marker, updater, boot, banner,
                 clearing, fresh, overlapped>>

ClearArrives ==
  /\ clearing /\ clearing' = FALSE /\ wanted' = FALSE
  /\ UNCHANGED <<head, installed, released, upgrading, marker, updater, boot, banner,
                 fresh, fevents, overlapped>>

\* show_snackbar from elsewhere, and a text that is over; a persistent banner stays.
OtherSnackbar ==
  /\ FirmwareEvent /\ banner' = OtherText
  /\ UNCHANGED <<head, installed, released, upgrading, marker, updater, boot, row2, overlapped>>

SnackbarEnds ==
  /\ banner = OtherText /\ banner' = NoBanner
  /\ UNCHANGED <<head, installed, released, upgrading, marker, updater, boot, row2, fevents, overlapped>>

\* Bug: only a result without an error takes it away.
Answered_KeepsBanner(u, error) ==
  banner' = IF u \in InMain /\ ~error /\ banner = u THEN NoBanner ELSE banner
\* wrap_firmware_update_with_snackbar: an answer with an error replaces what is shown, any
\* other takes the own banner away.
Answered(u, error) ==
  banner' = IF u \notin InMain THEN banner
            ELSE IF error THEN OtherText
            ELSE IF banner = u THEN NoBanner ELSE banner

\* The patch that clears the request: _clear_update_request, the callback of the update
\* that the row has asked for, which is called once, and the answer to one that went well.
ClearRequest(u) ==
  /\ clearing' = (clearing \/ (u = "remote" /\ ~updater[u].told))
  /\ UNCHANGED <<wanted, fresh>>

\* The services are restarted, and end with the updates in them; the outbox is in the memory
\* of the main process.
Restarts(dying) ==
  /\ updater' = [u \in Updater |-> IF u \in dying THEN NoUpdate ELSE updater[u]]
  /\ banner' = NoBanner /\ fresh' = TRUE /\ clearing' \in {FALSE, clearing}

\* The device goes down and comes up again: /run is empty, and the repair is due if there is
\* a marker.
GoesDown(amid) ==
  /\ cut' = (cut \/ \E u \in amid : Working(u))
  /\ upgrading' = FALSE /\ Restarts(Updater)
  /\ repair' = IF marker' THEN "due" ELSE "idle"
  /\ UNCHANGED <<head, released, wanted, overlapped, hindered>>
--------------------------------------------------------------------------------
\* Bug: the state is published once the repository has changed.
Begin_Silent(u) ==
  /\ updater[u].pc = "idle"
  /\ Overlaps
  /\ updater' = [updater EXCEPT ![u] = [pc |-> "fetch", saved |-> head, told |-> FALSE]]
  /\ banner' = IF u \in InMain THEN u ELSE banner
  /\ UNCHANGED upgrading
\* rev-parse HEAD and set_upgrade_in_progress(True).
Begin(u) ==
  /\ updater[u].pc = "idle"
  /\ Overlaps
  /\ updater' = [updater EXCEPT ![u] = [pc |-> "fetch", saved |-> head, told |-> FALSE]]
  /\ upgrading' = TRUE
  /\ banner' = IF u \in InMain THEN u ELSE banner

\* The end of a snapshot: the version of this start is published once, and a request of the
\* row is served by the server thread itself.
Snapshot2 ==
  /\ updater["remote"].pc = "idle" /\ (wanted \/ fresh)
  /\ fresh' = FALSE /\ clearing' = (clearing \/ fresh)
  /\ IF wanted THEN Begin("remote") ELSE UNCHANGED <<updater, upgrading, banner, overlapped>>
  /\ UNCHANGED <<head, installed, released, marker, boot, wanted, fevents>>

\* perform_update over the websocket or of the MCP server; the cron job checks first.
BeginOther(u) ==
  /\ u # "remote" /\ FirmwareEvent
  /\ u = "cron" => head # released
  /\ Begin(u)
  /\ UNCHANGED <<head, installed, released, marker, boot, row2>>

\* reset, fetch, branch, and reset to the commit of the remote: up to date already, on to
\* update.sh, a git command that fails, or a branch that cannot be told.
UpToDate(u) ==
  /\ updater[u].pc = "fetch" /\ u # "mcp" /\ updater[u].saved = released
  /\ upgrading' = FALSE /\ Idles(u) /\ Answered(u, FALSE) /\ ClearRequest(u)
  /\ UNCHANGED <<head, installed, released, marker, boot, fevents, overlapped>>

Fetched(u) ==
  /\ updater[u].pc = "fetch" /\ (u = "mcp" \/ updater[u].saved # released)
  /\ head' = released /\ installed' = "partial" /\ Goto(u, "run")
  /\ UNCHANGED <<released, upgrading, marker, boot, banner, row2, fevents, overlapped>>

\* except Exception: an error that is no failed command ends the update where it is.  No
\* marker, no rollback, and before_terminal_action is not called; finally clears the state.
Raises(u) ==
  /\ hindered /\ u # "mcp" /\ updater[u].pc \in {"fetch", "run", "terminal", "restart"}
  /\ cut' = (cut \/ updater[u].pc = "run")
  /\ upgrading' = (upgrading /\ updater[u].pc = "restart")
  /\ Idles(u) /\ Answered(u, TRUE)
  /\ UNCHANGED <<head, installed, released, marker, repair, hindered, row2, fevents, overlapped>>

\* An error in the handler of a failed command is caught by nobody: there is no commit to go
\* back to when it was the first rev-parse that failed, or the rollback itself raises.
HandlerRaises(u) ==
  /\ hindered /\ u # "mcp" /\ updater[u].pc \in {"fetch", "rerun"}
  /\ marker' = TRUE /\ upgrading' = FALSE
  /\ Idles(u) /\ Answered(u, TRUE)
  /\ UNCHANGED <<head, installed, released, boot, row2, fevents, overlapped>>

\* Bug: the marker is left to the rollback.
Fails_Unmarked(u) ==
  /\ updater[u].pc \in {"fetch", "run", "terminal", "restart"}
  /\ upgrading' = TRUE
  /\ head' = updater[u].saved /\ installed' = "partial" /\ Goto(u, "rerun")
  /\ UNCHANGED <<released, marker, boot, banner, row2, fevents, overlapped>>
\* CalledProcessError: the marker, and back to the commit before.
Fails(u) ==
  /\ updater[u].pc \in {"fetch", "run", "terminal", "restart"}
  /\ marker' = TRUE /\ upgrading' = TRUE
  /\ head' = updater[u].saved /\ installed' = "partial" /\ Goto(u, "rerun")
  /\ UNCHANGED <<released, boot, banner, row2, fevents, overlapped>>

\* update.sh has ended.  For the row the rest is left to _run_terminal_update_actions; the
\* others' script publishes the end and restarts the services itself.  The one of a request
\* runs in the service it restarts, and may not come to that of the MCP server.
ScriptEnds(u) ==
  /\ updater[u].pc = "run"
  /\ installed' = head
  /\ IF u = "remote" THEN Goto(u, "terminal") /\ UNCHANGED <<upgrading, banner, fresh, clearing>>
     ELSE /\ upgrading' = FALSE
          /\ \/ Restarts(InMain \cup {u, "mcp"})
             \/ u = "request" /\ Restarts(InMain)
  /\ UNCHANGED <<head, released, marker, boot, wanted, fevents, overlapped>>

\* The upgrade state and the request are cleared before the services are restarted.
TerminalActions(u) ==
  /\ updater[u].pc = "terminal"
  /\ upgrading' = FALSE /\ ClearRequest(u)
  /\ updater' = [updater EXCEPT ![u].pc = "restart", ![u].told = TRUE]
  /\ UNCHANGED <<head, installed, released, marker, boot, banner, fevents, overlapped>>

RestartServices(u) ==
  /\ updater[u].pc = "restart"
  /\ Restarts(InMain \cup {"mcp"})
  /\ UNCHANGED <<head, installed, released, upgrading, marker, boot, wanted, fevents, overlapped>>

\* The end of the rollback: files and packages are those of the commit before, or not.  The
\* script of the MCP server restarts that server, before it takes the marker away.
RollbackEnds(u) ==
  /\ updater[u].pc = "rerun"
  /\ installed' = head /\ upgrading' = FALSE
  /\ IF u = "mcp" THEN Restarts(InMain \cup {"mcp"}) /\ UNCHANGED <<marker, wanted>>
     ELSE Idles(u) /\ Answered(u, TRUE) /\ marker' = FALSE /\ ClearRequest(u)
  /\ UNCHANGED <<head, released, boot, fevents, overlapped>>

\* Bug: the callback is called for a rollback that succeeds only.
RollbackFails_KeepsRequest(u) ==
  /\ updater[u].pc = "rerun"
  /\ upgrading' = FALSE /\ Idles(u) /\ Answered(u, TRUE)
  /\ UNCHANGED <<head, installed, released, marker, boot, row2, fevents, overlapped>>
RollbackFails(u) ==
  /\ updater[u].pc = "rerun"
  /\ upgrading' = FALSE /\ Idles(u) /\ Answered(u, TRUE) /\ ClearRequest(u)
  /\ UNCHANGED <<head, installed, released, marker, boot, fevents, overlapped>>
--------------------------------------------------------------------------------
\* A reboot, asked for or not.
Reboot ==
  /\ FirmwareEvent /\ UNCHANGED <<installed, marker>>
  /\ GoesDown(Updater)

\* The kernel has been rolled back, which takes a reboot instead of the restarts: at the end
\* of update.sh in an update, in the rollback of the MCP server or in the repair, which may
\* still take the marker away, or in _run_terminal_update_actions.
KernelReboot ==
  /\ FirmwareEvent
  /\ \/ \E u \in Updater \ {"remote"} :
          /\ updater[u].pc = "run" \/ (u = "mcp" /\ updater[u].pc = "rerun")
          /\ installed' = head /\ marker' = marker /\ GoesDown(Updater \ {u})
     \/ /\ updater["remote"].pc = "restart"
        /\ UNCHANGED <<installed, marker>> /\ GoesDown(Updater)
     \/ /\ repair = "run"
        /\ installed' = head /\ marker' \in {FALSE, marker} /\ GoesDown(Updater)

\* dartsnut_update_repair.service: update.sh once more, until it succeeds.
RepairStarts ==
  /\ repair = "due" /\ marker /\ Overlaps
  /\ repair' = "run" /\ upgrading' = TRUE /\ installed' = "partial"
  /\ UNCHANGED <<head, released, marker, updater, banner, row2, cut, hindered, fevents>>

RepairEnds ==
  /\ repair = "run"
  /\ repair' = "idle" /\ upgrading' = FALSE /\ installed' = head /\ marker' = FALSE
  /\ Restarts(InMain \cup {"mcp"})
  /\ UNCHANGED <<head, released, wanted, cut, hindered, fevents, overlapped>>

RepairFails ==
  /\ repair = "run" /\ FirmwareEvent /\ repair' = "due" /\ upgrading' = FALSE
  /\ UNCHANGED <<head, installed, released, marker, updater, banner, row2, cut, hindered, overlapped>>
--------------------------------------------------------------------------------
UpdateStep(u) ==
  \/ UpToDate(u) \/ Fetched(u) \/ Raises(u) \/ HandlerRaises(u) \/ Fails(u) \/ ScriptEnds(u)
  \/ TerminalActions(u) \/ RestartServices(u) \/ RollbackEnds(u) \/ RollbackFails(u)
RepairStep == RepairStarts \/ RepairEnds \/ RepairFails

FirmwareNext ==
  \/ Release \/ Hinder \/ AppAsks \/ ClearArrives \/ OtherSnackbar \/ SnackbarEnds \/ Snapshot2
  \/ Reboot \/ KernelReboot \/ RepairStep
  \/ \E u \in Updater : BeginOther(u) \/ UpdateStep(u)

FirmwareSpec == FirmwareInit /\ [][FirmwareNext]_firmwareVars

\* Programs that run end; the row is delivered and comes back as snapshots, at least with
\* each heartbeat of the bridge.
FirmwareFairness ==
  /\ WF_firmwareVars(ClearArrives) /\ WF_firmwareVars(Snapshot2) /\ WF_firmwareVars(RepairStep)
  /\ \A u \in Updater : WF_firmwareVars(UpdateStep(u))

FirmwareFairSpec == FirmwareSpec /\ FirmwareFairness
--------------------------------------------------------------------------------
FirmwareTypeOK ==
  /\ head \in Commit /\ released \in Commit /\ installed \in Commit \cup {"partial"}
  /\ upgrading \in BOOLEAN /\ marker \in BOOLEAN
  /\ updater \in [Updater -> [pc : Labels, saved : Commit, told : BOOLEAN]]
  /\ repair \in {"idle", "due", "run"} /\ banner \in InMain \cup {NoBanner, OtherText}
  /\ wanted \in BOOLEAN /\ clearing \in BOOLEAN /\ fresh \in BOOLEAN /\ cut \in BOOLEAN
  /\ overlapped \in BOOLEAN /\ hindered \in BOOLEAN /\ fevents \in 0..MaxFirmwareEvent

\* "whether firmware update or rollback work is active" (upgrade_state.py:13): while files
\* change, the other programs are told so, unless updates have overlapped.
UpgradeShown ==
  ~overlapped /\ (repair = "run" \/ \E u \in Updater : Working(u)) => upgrading

\* A device that is left with files of one commit and packages of another has the marker
\* that makes the next boot repair it (update_repair.py), unless updates have overlapped or
\* one has ended halfway: it was switched off, or update.sh could not be started, which
\* is no CalledProcessError and leaves no marker.
HalfInstalledIsMarked ==
  installed # head /\ (\A u \in Updater : ~Working(u)) => marker \/ cut \/ overlapped

\* The banner that does not go away by itself belongs to an update that works.
BannerHasUpdate == banner \in InMain => updater[banner].pc # "idle"

\* A request of the row is cleared, whether its update succeeds, fails or is not needed,
\* once nothing makes updates raise any more: an update that raises does not clear it, and
\* is tried again at every snapshot as long as the cause lasts.
RequestCleared == <>[]~hindered => []<>~wanted
================================================================================
