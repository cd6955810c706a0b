# Verification of the Dartsnut machine runtime

TLA+ specifications of the program under `src/`, the TLC runs that check them on
small instances, and the theorems TLAPS proves about them for every value of
their constants. Paths below are relative to `src/`.

Section 1 is the inventory of the program, 2 says how each module corresponds to
its code, 3 what the runs check on which instances and under which fairness, 4 what
is proved and how, 5 what the models show to be wrong, 6 and 7 what is left.

The runtime is one Python process on a Raspberry Pi that drives an LED matrix. It
shows widgets and games, each a child process that draws into shared memory, and
keeps itself in step with one row of a cloud database through a second process,
the *bridge*. Requests reach it from the cloud row, over a websocket, over BLE
and from buttons. It is written with threads, a handful of locks and many plain
flags; nearly nothing of it is covered by tests (one test file, for the UDP
broadcast address). What can go wrong is therefore mostly what happens between
the steps of different threads, and that is what the models are about.

## 1. Inventory

### 1.1 How the parts interact

                       websocket / BLE / MCP requests        buttons
                                  |                             |
      cloud row  <->  bridge   worker threads              main loop (display_loop)
         ^            process     |        \                 |       |
         |              |         |         sideload      widgets   game
         |         server thread  |         session       (child processes)
         |              |         v
         +--- outbox <- engine -> RemoteDeviceConfigApplier -> device.json,
              (timer    (reducer)  downloads, Bluetooth, firmware update
               thread)

* The **bridge** connects to a unix socket that the runtime listens on and
  exchanges JSON lines with it: `remote_row`, `ack`, `error`, `bridge_health` in;
  `rpc_patch` and `initial_state` out.
* Inbound rows are handled on the **server thread** of the session, from the
  reducer down to downloads; outbound patches go through the **outbox**, from any
  thread, and are written to the socket by the thread that publishes them or by
  the outbox's timer thread.
* The **main loop** renders frames and polls flags that the other threads set in
  `AppContext` (`start_game`, `reload_conf`, `reload_pages`, `reload_game_menu`).
* Requests over the websocket run in **worker threads**, one per request.

### 1.2 Components

State, operations, what is hard about each, and what makes it correct. Each is an
entry of `PROJECT.json` (`components`), and the hard spots are its `hazards`, each
at its line.

| component | state it keeps | operations | hard behaviour | correct when |
|---|---|---|---|---|
| Outbox `runtime/sync/outbox.py` | entries by ref with attempts, ack flag and next retry; last acknowledged scalars | enqueue with coalescing, flush, ack, error | flush by several threads with the lock released around the send; lost lines and acks; retry after 30 s | no patch is lost, coalescing keeps the newest values, everything is delivered while the bridge lives |
| Bridge session `supabase_sync_bridge.py` | `_client`, `_bridge_proc`, `_sync_engine`, `_connected`, time of last frame | ensure, restart, stop, launch thread, server thread, staleness watchdog | boot thread and connection loop overlap; Popen in a thread of its own; an old server thread ends after its successor began | one engine and client belong together; a dead bridge is replaced; the connected flag is true |
| Sideload session `runtime/sideload_session.py` | the active session, its process, generation and segment | start, stop, update_params, expiry, exit of the app | a session may be ended by four kinds of thread while a fifth updates it | sessions do not overlap, end exactly once, and a dead app ends its session |
| Engine and reducer `runtime/sync/` | newest accepted row time, last fingerprint, set of ready games | ingest a row | rows out of order and duplicated; rows echo own publications | older rows never undo newer ones |
| Remote configuration `runtime/remote_device_config.py` | startup settlement flags, games being downloaded, times of local changes | apply one snapshot | remote commands against local ones, by clock; first snapshot after boot | a local change is not undone by an older snapshot; a command is not executed twice |
| Game installation `game_lifecycle.py`, `domain/game_remote_sync.py` | folders in `apps/`, downloads in flight, published statuses | download command, startup recovery, reconciliation, launch | background downloads with callbacks; statuses suppressed as already published | a download command ends in ready or error; one download per game |
| Websocket downloads `python_websocket/file_operations.py` | progress table, cancel flags, keys in flight | start, cancel, worker steps, status | cancel against completion, start against start | one worker per game; a cancelled download leaves no half-installed game |
| Widgets `widget_lifecycle.py`, `states/widget.py` | processes and segments by page | start, stop, replace, restart after exit | child processes that die, pages replaced while they start | one process and segment per visible widget |
| Display loop `runtime/display_loop.py`, `runtime/brightness.py` | dim window state, transition, which frame to show | one iteration | flags set by other threads; start of a game while a session begins | the right producer's frame is shown; brightness returns after dimming |
| Machine state, device.json `machine_state_service.py` | one JSON file | read-modify-write by several threads | no lock, rewritten in place | no setting is lost, the file is never empty |
| Bluetooth `remote_bluetooth_sync_controller.py` | controllers, scan results, in-progress flag | scan, connect, remote lists | worker threads publish after they release the lock | one scan at a time; the newest state is published last |
| Wi-Fi `runtime/wifi_controller.py` | pending operation, result | scan, connect, poll | single-flight workers | one worker, its result is delivered once |
| Reset `runtime/reset_workflow.py`, `main.py` | in-progress flag, confirmation event | reset, confirmation, timeout | check-then-set, late confirmation | one reset at a time |
| Firmware update `python_websocket/git_operations.py` | git work tree, upgrade flag | update, rollback | failure of any step, failure of the rollback | either the new or the old version, flag cleared |
| Snackbar `runtime/snackbar_display.py` | current message, token | show, dismiss, expire | timers of replaced messages | a timer never removes a newer message |
| Settings debounce `runtime/settings_sync_debounce.py` | pending value and timer per key | schedule, flush | a timer that has fired cannot be cancelled | the last value is published |
| Preview worker `validation_worker.py`, `preview_cache.py` | priority queue, file cache | submit, worker, shutdown | sentinel in a priority queue | shutdown ends the workers |
| Settings screens `states/settings.py` | position in a menu tree | buttons | none between threads, many screens | every screen can be left |
| Adapters: websocket server, BLE, UDP, MCP, PICO-8, tokens | little | message I/O | - | - |

`bridge`, `watchdog` and `DartsnutRGBMatrix` are binaries without source. What the
Python code sees of the bridge is modelled as external actions.

## 2. What is modelled

Thirteen components, each a module of its own; the bridge's outbox has three. All of
them have theorems, in eight modules: the outbox, the downloads, the firmware, the games,
the settings and the sideload sessions have one each, `ServiceProofs` has those of
`BridgeSession`, `DeviceJson`, `Controllers`, `DimWindow` and of the run `services` as a
whole, and `DisplayProofs` those of `Widgets`, `Screens`, `DeviceReset` and of the run
`display`. `PROJECT.json` maps each definition to its
lines. `Foo_Bar` beside a definition `Foo` is a variant with a bug, used to show that a
property is sensitive to it.

| module | code | run |
|---|---|---|
| `Patches`, `PatchDelivery`, `Outbox` | `runtime/sync/outbox.py` | `outbox_*` |
| `BridgeSession` | `supabase_sync_bridge.py` | `services`, `bridge_wedge` |
| `Sideload` | `runtime/sideload_session.py` | `sideload*` |
| `GameInstall` | `game_lifecycle.py`, `runtime/remote_device_config.py` | `game_install*` |
| `RemoteSettings` | `runtime/remote_device_config.py`, `runtime/settings_sync_debounce.py`, `runtime/sync/reducer.py` | `remote_settings`, `setting_dropped` |
| `FileDownload` | `python_websocket/file_operations.py` | `services` |
| `DimWindow` | `runtime/display_loop.py`, `main.py` | `services` |
| `Controllers` | `python_websocket/remote_bluetooth_sync_controller.py`, `bluetooth_operations.py` | `services` |
| `Firmware` | `python_websocket/git_operations.py`, `update_repair.py`, `runtime/snackbar_display.py` | `services` |
| `DeviceJson` | `machine_state_service.py`, `runtime/device_json_identity.py` | `services` |
| `Widgets` | `widget_lifecycle.py`, `states/widget.py` | `display` |
| `Screens` | `states/settings.py`, `runtime/wifi_controller.py`, `runtime/brightness_calibration.py` | `display` |
| `DeviceReset` | `runtime/reset_workflow.py`, `main.py` | `display` |

Where two components meet, the one in question has the other as what it promises:
`RemoteSettings` has the outbox as its theorems describe it, `GameInstall` likewise,
`Sideload` has the main loop's stay in `init_widgets`, `Widgets` has a game as
something that takes the screen, `Screens` has a sweep that sets the brightness,
`Controllers` and `DeviceReset` hand their patches to an outbox on which nothing of
theirs depends. `MC_Services` and `MC_Display` put components that share no state
into one run: the variable `focus`, chosen at the start, says which of them a
behaviour runs, and the others stay in one of their initial states. So each property
is checked over all behaviours of its own component, never over products of them.

### 2.1 Outbox: `Patches`, `PatchDelivery`, `Outbox`, `OutboxProofs`, `MC_Outbox`

`Patches` says what a patch is: a kind (only scalar columns, the status of one
game, anything else) and a value per key. `PatchDelivery` is the abstract
specification, what a publisher relies on: each accepted patch is owed to the row
until it has been applied, or until a newer one that writes at least the same keys
takes its place. `Outbox` is the code, and `DeliverySpec` states that it implements
`PatchDelivery` with `owed <- pending` and `got <- applied`.

| TLA+ | code |
|---|---|
| `log`, `pending` | `_pending` with `_order`: refs are positions in `log` (the code's uuids only need to differ) |
| `waiting` | entries whose `next_retry_at` lies in the future; `Expire` is the passing of that time |
| `pc`, `todo`, `held` | a thread inside `_flush_ready`: the refs it copied, the entry it holds |
| `Enqueue` with `Absorbed`, `Merged`, `Suppressed` | `enqueue` up to the release of the lock, with both coalescing functions |
| `FlushBegin`, `Visit`, `Send`, `Mark` | `_flush_ready`, one step for each hold of `_lock` and one for the send between |
| `OnAck`, `OnError` | the server thread's calls |
| `Connect`, `Disconnect`, `BridgeTakes` | socket, bridge and row |

A line, an ack or an error reply may be lost, a patch may be applied twice, and the
bridge may refuse a patch any number of times. Left out: the lengths of the backoff
(only that a ref waits), partial writes to the socket, and the `full` flag, which
is carried but decides nothing in the outbox. The link comes up once and goes down
for good: an outbox belongs to one session.

### 2.2 Bridge sessions: `BridgeSession`

A session is one `_SyncClient` with the threads `_launch` and `_server` and its
process. The two threads that manage sessions are `boot`
(`runtime/bootstrap.py:149`) and `loop` (`main.py:739-805`). Each step is one hold
of `_bridge_lock` or one assignment to a module global outside it: the stop of a
session is `StopTakes` under the lock, `StopTerminates`, and the three assignments
`StopClearsClient`, `StopClearsActivity`, `StopClearsConnected`. `path` is the
socket file, which a server thread removes and binds in two steps. `Popen` may fail,
and then no process is recorded. A process may
exit or fall silent at any time, and may connect to the listener of
another session. The bridge binary is taken to be installed (the early return at
lines 1228-1232 is not modelled). Times are abstracted to fresh or stale.

`DeadBridgeReplaced` asks for the replacement itself, not only for the end of the dead
one: a later session is wired and its launch comes to its end, which is a process recorded
or a `Popen` that failed (the code tries that again only when the loop next finds a reason
to restart), or a session wired at the same time records its own process.

### 2.3 Sideload sessions: `Sideload`, `SideloadProofs`, `MC_Sideload`

Sessions are numbered, a process is the pair `<<session, generation>>`. The shared
memory of a session has one name for all its generations; `segments` are the sessions
under whose name a segment exists, so that an old clean-up unlinks a newer generation's
segment as in the code. The threads are request handlers (one of them stands for the expiry
watchdog, which stops the active session at any time) and an observer per session.
Every interval between two holds of `_lock`, and every blocking call, is a step, so
that stop requests, expiry, exits and updates meet everywhere. `startLock` is
`_start_lock`. The hand-over of the display is in the model: `production`,
`reload` and the main loop's stay in `init_widgets`, which first builds the pages
(`LoopLoads`) and then clears the flag (`LoopClears`, `main.py:654`), with a request that
was made in between. The clean-up of a session unlinks its segment and removes its files
in two steps (`Unlink`, `RemoveFiles`). Left out: uploads, logs, frames, and the reuse of
a session id (a session has files and a segment name of its own).

### 2.4 Games: `GameInstall`, `GameInstallProofs`, `MC_GameInstall`

The cloud row lists the games of the device, each with a status and a version. The
app commands by writing the row ("downloading", "playing", "ready"), the device
answers by publishing statuses, and both arrive back as snapshots. The module
follows a snapshot through `RemoteDeviceConfigApplier.apply` game by game, with
background downloads and the main loop running beside it.

| TLA+ | code |
|---|---|
| `row`, `inbox`, `out` | the row, its snapshots on their way to the device, the device's updates on their way to the row; both in order |
| `snap`, `origin`, `startup` | the snapshot in hand with its `last_update_source`; the first one is only settled |
| `Phases`, `Visits`, `Advance`, `todo` | the loops of `apply` over the list of games, in their order |
| `Recover`, `RemoveFolder`, `Resume`, `Cleanup` | startup recovery, folders against the row, interrupted downloads, marks of games no longer listed |
| `IgnoreEcho`, `InstallDone`, `Install`, `Stop`, `Play` ... `Launch` | the commands, with `handle_incoming_game_status`; a missing game to be played is downloaded by the server thread itself |
| `marked`, `inflight`, `cache` | `remote_downloading_game_ids`, `_game_background_download_inflight`, `_published_game_status` |
| `StartDownload`, `Check`, `Fetch`, `OnSuccess`, `OnFailure`, `Unmark`, `Release` | `download_game_async` and its worker, with the callbacks of the three callers |
| `RequestFrom`, `Publish` | `request_set_game_status` up to the change of the cache, and the publication after it |
| `LaunchGame`, `UserStarts`, `RunGame`, `EndGame` | the main loop's start of a game, the game menu, the end of a process |

Left out: the menu and its list, previews, the pause overlay and PICO-8; the
failed-setup marker (a failed setup is a failed download, and a game whose setup
failed counts as missing); the clocks that decide whether a remote "playing" is
accepted (it may be or not); downloads over the websocket; failures of the removal
of a folder; and the applier's check for duplicate snapshots, whose fingerprint
holds the time of the row, so that the reducer has refused a duplicate already.
Assumed of the row: it ignores updates for games it does not list, and its
snapshots reach the device in order.

### 2.5 Volume and brightness: `RemoteSettings`, `RemoteSettingsProofs`, `MC_RemoteSettings`

One setting that two sides write. The device changes it from buttons and websocket
requests and publishes it after a debounce; the app writes the cloud row; the row's
snapshots, echoes of the device's own publications among them, come back to the
device, where the reducer and a guard of recent local changes decide whether they
are stored.

| TLA+ | code |
|---|---|
| `row`, `inbox` | the row with its time and `last_update_source`, its snapshots on their way |
| `seen`, `print`, `Refused` | `last_row_updated_at`, `last_snapshot_fingerprint`, `_accept_row_meta` |
| `SetBegins`, `Set`, `Note`, `Schedule` | `set_volume` (and `set_brightness`): the comparison with what is stored, the storing, `note_local_setting_change`, the debouncer's `schedule`; other threads run between them |
| `noted`, `guard`, `Accepted` | `local_setting_value` and its time, "less than 5 s ago", `should_accept_remote_setting` |
| `pending`, `armed`, `loose`, `taken` | the debouncer's pending value; the timer in its table; timers that have fired or were taken out of the table without being cancelled; the value a flush has taken |
| `HandOver`, `Deliver`, `Ack` | `enqueue` for a scalar patch, delivery, `on_ack` with `_last_acked_scalars` |
| `Receive`, `Store` | the server thread up to the decision, and the storing after it |

`HandOver` has the outbox as `OnePendingPerClass` and `PatchDelivery` promise it: one
pending entry, delivered at some time. `lost` remembers that the device has a value
that nobody will publish: the outbox dropped it as already acknowledged, or a
snapshot was stored between `set_volume`'s comparison and its storing. Times are
numbers that only order, and each change takes a new one. The guard may end at any
time; of the 2 s of the debounce only this is used, that a flush has handed its
value over before another timer fires. Left out: the raw brightness values of old
apps, the dim window, the merge of device and row at the first connection (a
behaviour starts after it, in agreement), a session that is replaced with its
outbox, snapshots out of order.

Several threads (`Setter`) change the setting, the main loop for buttons and workers for
websocket requests. When two changes overlap, one thread may store and note its value last
and the other schedule its value last, since no lock holds `main.py:290-291` together, and
device and row may then stay apart; no text of the code promises an order there.
`crossing` are the threads whose change has overlapped another one, and `crossed` says that
the last change published was one of those. `Settled` and `Agree` leave out that case and
no other: a later change by itself brings device and row together again.

### 2.6 Downloads over the websocket: `FileDownload`, `FileDownloadProofs`

| TLA+ | code |
|---|---|
| `progress`, `canceling`, `inFlight` | `DOWNLOAD_PROGRESS`, `_DOWNLOAD_CANCEL_REQUESTED`, `_DOWNLOAD_KEYS_IN_FLIGHT` |
| `onDisk`, `FileOf` | what each file under `downloads/` holds; the last segment of a key's url names its file |
| `linked`, `mixed` | which receiving threads still write to the file under the name; the other keys under which a thread's file has been opened beside it |
| `OpenFile`, `WriteFile`, `CloseFile`, `RemoveFile` | `open(..., "wb")`, the writes, the end of the `with`, `os.remove` |
| `StartById`, `StartWithUrl`, `ReserveFirst`, `DiscardFlag`, `StartWorker` | the two starts in the background, one step between two accesses to the tables |
| `SyncDownload` | `download_app`, which blocks and reports no progress |
| `WorkerStart` ... `FinishInstall` | the workers' bodies: metadata, key, connection, stream, md5, extraction, installation |
| `RaiseInJob`, `Cleanup`, `ReleaseKey` | the except and finally clauses, in the order each worker has them |
| `CancelDownload`, `CancelCheck`, `CancelMark`, `Unflag` | `cancel_game_download`, `_mark_download_canceled` |
| `RemoveDirectory` | `remove_directory` on the folder of a game |

A key is the pair (url, md5), the file is named by the last segment of the url
(`file_operations.py:503-504`, `623-624`, `768-769`), so that two keys may share a file
which the reservation of keys does not protect. In the run both archives have one
file name, and a thread may then extract another archive than the one it has verified.
`VerifiedOnDisk` says that this is the only way: a thread whose file nobody has opened
under another key extracts what it verified, or finds no file, whatever threads of its
own key have done before.

Only the keys are guarded by a lock; the check, the flag and the entry of a start or a
cancel are three steps, between which any other thread runs, and so are the entry and the
flag when a download is marked as canceled. A cancel may be lost in these gaps, which the
code does not exclude and no property denies; what is checked is that the game is not
shown as being downloaded for ever. Percentages and the wording of errors are not
distinguished; listing, reading, writing and uploading files keep no state and are left
out.

### 2.7 Brightness: `DimWindow`

The panel, the transition of one second between two values, the stored level, the
dim window with its override by button, and the setters. `EnterDim`, `LeaveDim`,
`ForceNormal` and `DimAgain` are the branches of the main loop's check and buttons;
`SetBrightness` looks at the dim window, `SetByService` does not, and
`ApplyBrightness`, `PersistBrightness`, `RememberBrightness` are what follows, in
other threads. Levels are few, each with a raw value, and a transition may stand at every
value between two. The clock only says whether the window is open. What the
panel shows *within* the window is not promised by a property: a setter that did not look
sets it bright until the next check, one minute later.

### 2.8 Controllers: `Controllers`

What the system's bonds, the device's list and the row say of each controller. `ReadBonds`
and `MergePoll` are the poll of each second, `MergeRefresh` a refresh, `ScanReads`,
`ScanFinds` the worker of a scan, `Pair`, `TryConnect`, `AnswerConnect` that of a
connection, each with the reading of the bonds and its use as separate steps. `StartScan`
and `StartConnect` set the flag or the status; their caller, the server thread or the
settings page, then publishes it, and only after that starts the thread (`ScanStarts`,
`ConnectStarts`, `PagePublishes`). `TakeLists`, `TakeScan`, `TakeConnect`, `TakeRemoved`,
`Unpair` follow one snapshot; a snapshot is *any* row, so that late echoes and concurrent
users are all included. `bluetoothctl` is a system whose answers are the bonds; output
that cannot be read is not modelled, nor are the input of controllers
(`controller_input.py`) and the publication of the lists.

### 2.9 Firmware: `Firmware`, `FirmwareProofs`

Four updaters, the repair service after a boot, and what they tell the others.

| TLA+ | code |
|---|---|
| `head`, `installed` | the commit checked out, and the one whose `update.sh` has run to its end, "partial" between |
| `upgrading`, `marker` | `/run/dartsnut/upgrade_in_progress`, the pending marker of `update_repair.py` |
| `Begin`, `UpToDate`, `Fetched`, `ScriptEnds` | `_perform_update_locked`; of the cron job and the MCP server where they differ |
| `Fails`, `RollbackEnds`, `RollbackFails` | its clause for failed commands |
| `hindered`, `Hinder` | a cause that makes updates raise as long as it lasts: a branch that cannot be told, git or `update.sh` that cannot be run |
| `Raises`, `HandlerRaises` | its clause for every other error (`git_operations.py:390`), which only tells the caller; an error inside the clause for failed commands |
| `TerminalActions`, `RestartServices` | `_run_terminal_update_actions` |
| `told`, `ClearRequest` | `_call_once` around `before_terminal_action`, and the clearing of the row's request |
| `Reboot`, `GoesDown`, `KernelReboot` | a boot at any time; one that follows a rollback of the kernel, in place of the restarts |
| `RepairStarts`, `RepairEnds`, `RepairFails` | `dartsnut_update_repair.service` |
| `wanted`, `clearing`, `fresh`, `Snapshot2`, `ClearArrives` | the row's request and the patch that clears it, which is in the memory of the main process and may end with it |
| `banner`, `Answered`, `OtherSnackbar`, `SnackbarEnds` | `wrap_firmware_update_with_snackbar` and what else is shown |

Nothing keeps two updates apart, so they overlap in the model; `overlapped`
remembers that they did. `cut` remembers that one ended halfway with no rollback and no
marker: the power was cut, or `update.sh` could not be started, which is no failed command.

An update that raises does not clear the request of the row: `remote_device_config.py:1312`
logs the error, and the next snapshot tries again. With a cause that stays, a detached
HEAD say, the request is never cleared. `RequestCleared` therefore has `<>[]~hindered` as
its premise; `Hinder` sets and lifts the cause at any time, and it may be there at the
start. Left out: what the
scripts install, the choice of a mirror, the forced check of the file system.

### 2.10 device.json: `DeviceJson`

Every setter is the same five steps without a lock: `SetField`, `Load`, `Identify`,
`Truncate`, `Dump`. A document written over another one may leave the other's end, which
is no JSON; a file that is no JSON reads as `{}`. `PowerCut` ends all threads at
any point and runs the repair of the identity at boot. Three more rewrite the file: the
repair of the identity (`RepairIdentity`), the migration of the brightness (`Migrate`) and
`scripts/repair_device_json.sh` (`RepairScript`). The last two put another file in its
place (`Replace`), so that a thread that has opened the old one writes to a file without a
name (`DumpToOldFile`). `spoiled` remembers that changes
overlapped, that the power was cut while the file was truncated, or that the repair script
replaced a damaged file by the one of the boot partition: these are the three ways
to lose a setting, and `SettingsKept` says that there is no fourth.

### 2.11 Widget pages: `Widgets`

The list of pages with their processes, changed by four kinds of thread without a lock:
the main loop (`KeepPage`, `ChangePage`, `Restarted`, `StartReload`, `Press`, `EnterGame`,
`GameExits`), a websocket request that reloads (`RequestPages`), the server thread that
writes the pages of a snapshot and patches the list in place (`BridgeSnapshot`,
`OtherSnapshot`, `WritePages`, `CheckPatch`, `PatchPage`, `PatchWidget`, `PatchStarted`)
and the thread of a download (`FetchInstalls`, `FetchEnds`, `TellPage`, `KillInactive`). A
reload is four steps (`ReloadTerminates`, `ReloadReads`, `ReloadBuilds`, `ReloadEnds`). An
entry that another thread holds while the list is replaced is no longer of the list; what
is then done to it is lost with it. A page has one widget; clocks (durations, the throttle
of downloads, the hourly check) say only that something may happen now. Frames, shared
memory, archives and versions are left out.

`apps` are the apps whose folder is there, `ready` those of them that can be launched: the
sidecar is one of a widget and the virtualenv is prepared
(`widget_lifecycle.py:359-371`, `600-624`). A download puts the folder in place first
(`FetchInstalls`) and then prepares its virtualenv (`FetchEnds`); when that fails the
folder stays, the app is not asked for again (320) and its page has no process until an
hourly check or a later reload finds it ready. `Popen` may fail at a reload, a restart and
a soft apply; the default page of a reload then has no process and gets none
("unstarted"). `ShownRuns` speaks of apps that are ready, `DefaultPageKept` of a default
page that was started.

Snapshots of the bridge and of others are compared with the last of their own kind, and
only then written and applied (`remote_device_config.py:848-884`). Two ways to write and
not apply, or to apply and not write, are in the code: the first snapshot of the bridge
without `pages_updated_at` (861-868) is written, and applied only if the order of the
pages is another; and a snapshot of the bridge that returns to its last content after one
of another source is not written, and applied when its time is newer. `split` remembers
that one of them has happened and no snapshot has been both written and applied since;
`SnapshotShown` leaves it out, as it leaves out requests that write conf.json while a
snapshot does (`requested`). Writes of conf.json are taken to succeed.

Two pages of one configuration are taken to have different uuids (`PageAssumption`): the
soft apply looks a page up by its uuid (`by_uuid`, `widget_lifecycle.py:451`), and finds
the last of two equal ones, while the model patches by position. Ids are given by the app.

### 2.12 Settings screens: `Screens`

`page` and `overlay` are the position in the menu tree. `PressA`, `PressB`, `PressHome`
are the branches of `handle_input`, `Consume` is `SettingsState.update`; scans,
connections, deletions of a profile and calibration sweeps are threads of their own
(`WifiWork`, `SweepStep`). A sweep that succeeds shows its result first (`SweepSaves`) and
has the status "success" after it (`SweepSucceeds`), so that a press may fall in between.
`TakenAway` is a game or a reload that takes the screen: the settings object is dropped,
its sweep goes on and reports to an object nobody shows. A press acts on any row of its
page; the characters of a password, the levels of a sweep and the drawing are abstracted,
and the value rows for brightness and volume go to `DimWindow` and `RemoteSettings`. nmcli
is a system whose answers are the list, the profiles and the network joined; an answer
that cannot be read is a scan that fails.

### 2.13 Reset and network state: `DeviceReset`

A reset clears the row, waits up to 10 s for a snapshot that confirms it, forgets the
Wi-Fi and erases what the owner left; `network_state_remote_loop` publishes the network
beside it and rests during a reset. `StartReset` and `SetFlag` are two steps, so that two
resets may run. The row is the last patch published, `ssid` stands for `ip`, `ssid` and
signal, and a publication without a session is dropped without the publisher's learning of
it; publishing does not raise. `announced` is a history variable: a refresh was asked for
after the last reset had cleared the row. Errors while the row is being cleared are not
modelled.

Two things seen while modelling, which no text of the code promises otherwise: the empty
list of games that a reset publishes does not get through the filter of patches
(`_sanitize_games_patch`), so that a device with games in its row is never confirmed
and always waits out its 10 s; and a reset that is over before the connection is seen to
come back leaves the row without a network until the next reconnection, which is why
`NetworkShown` has `announced` as a premise.

## 3. What TLC checks

All actions and all disjuncts of the next-state relations fire in the passing runs.
Deadlock is not checked: every model may come to rest when nothing is asked of it
and its bound is used up.

| run | instance | states | result |
|---|---|---|---|
| `outbox_safety` | publisher and timer thread, 3 enqueues of two overlapping scalar patches, one line in the socket | 610,000 | `OutboxTypeOK`, `NothingLost`, `PendingIsFreshest`, `DeliverySpec` hold |
| `outbox_live` | the same threads, 2 enqueues of a status and of a patch never coalesced | 271,000 | `OnePendingPerClass`, `EventuallySettled` hold |
| `outbox_order` | 2 enqueues of statuses of one game | | `RowShowsNewestStatus` is violated in 19 states |
| `services` | one component at a time, see below | 590,000 | holds: `ServiceTypeOK` (the type invariants of all six) and the properties below |
| `display` | one component at a time, see below | 618,000 | holds: `DisplayTypeOK` (of all three) and the properties below |
| `bridge_wedge` | 2 sessions | | `WedgeIsSeen` is violated in 18 states |
| `sideload` | 2 handlers, 2 sessions, 1 update each | 661,000 | `SideloadTypeOK`, `OneOpenSession`, `EndsOnce`, `DeadAppEndsSession` hold |
| `sideload_leftovers` | the same | | `NothingLeftBehind` is violated in 18 states |
| `game_install` | 1 game in 2 versions, 2 download threads; a fresh device with 2 commands, or a device in any state with 1 | 339,000 | `GameTypeOK`, `OneDownloadPerGame`, `DownloadAnswered`, `StartupResumed` hold |
| `game_install_again` | 1 game, installed, 2 commands | | `UpToDateAnswered` is violated in 24 states |
| `remote_settings` | 2 values, 2 setters, 3 changes | 324,000 | `SettingTypeOK`, `PendingHasTimer`, `Settled`, `Agree` hold |
| `setting_dropped` | 2 values, 1 setter, 4 changes | | `Published` is violated in 11 states |

The components of the two composed runs:

| run | component | instance | properties |
|---|---|---|---|
| `services` | `FileDownload` | 2 threads that start, 1 that cancels, 1 game, 2 archives of one file name, both offered | `ActiveHasWorker`, `VerifiedOnDisk`, `DownloadEnds` |
| | `DimWindow` | 2 setters, 2 levels | `DimEnds` |
| | `Controllers` | 1 controller, 2 events | `ScanEnds`, `StatusFollows` |
| | `Firmware` | 4 updaters and the repair, 3 events | `UpgradeShown`, `HalfInstalledIsMarked`, `BannerHasUpdate`, `RequestCleared` |
| | `DeviceJson` | 2 threads, 2 fields, 3 events | `SerialKept`, `SettingsKept` |
| | `BridgeSession` | 2 sessions | `PatchesHaveOutbox`, `ConnectedIsServed`, `DeadBridgeReplaced` |
| `display` | `Widgets` | 1 app, 2 pages, 3 configurations, 1 request thread, 2 events | `DefaultPageKept`, `ShownRuns`, `SnapshotShown` |
| | `Screens` | 2 networks, 2 sweeps, 7 presses | `UserIsAnswered` |
| | `DeviceReset` | 2 threads that reset, 2 resets, 1 network, 1 item | `NetworkShown` |

`PatchesHaveOutbox` joins `EngineOfClient` (outside the lock the engine publishes into
the outbox of the active client) and `LiveBridgeHasOutbox` (while a live bridge is
recorded there is one).

**Bounds.** Coalescing compares a new entry with pending ones, of which there is at most
one of a class (proved), so three enqueues show every merge: with nothing, with one entry,
and with the result of a merge. Two threads are enough for a flush to overtake another;
the theorems hold for any number. A socket of one line makes `sendall` block as soon as it
can. Two bridge sessions show an old session against a new one. Two sideload sessions show
a replacement, one update each the race of an update with each of the four ways to end a
session. One game: the states of two games (status, mark, download, cache) are separate
and meet only in which of them runs and in the server thread's way from one to the next,
which the theorems cover for any number (TLC does not see one game stopped for another,
nor the liveness of several together); two versions tell an update from an install, and a
fresh device with two commands shows an install with a second command on top of it, of the
same version or the other, in every interval of the first. One download thread for a game
is enough, because a second is never started; TLC has two to show it. Every change of the
row sends all its games again, so that echoes and answers give many more snapshots than
commands. Settings: two values tell an echo from another value; three changes are two on
the device that overlap or follow each other and one of the app, or one on each side with
a repeated snapshot or an echo (what holds for more changes and more threads is proved, as
far as safety goes). Downloads: two starts of one game meet each other at every step, in
every pairing of the three kinds of download, with a cancel and a removal at any time; the
backend names one archive or the other, and the two have one file name, so that threads of
one key and of two meet in one file. Threads are used again after they return, without a
bound. Brightness: two levels and the dim level make transitions up, down and from
between; setters, the clock and the override are not bounded. Controllers: the status of a
controller depends on its own bonds alone, except that one connection and one scan run at
a time; two events are a snapshot (any of its contents) with one change of a bond, one
local command or one failure, while the poll and the workers run without a bound.
Firmware: a release and two requests, or a failure with a reboot between, or a cause of
errors that comes and goes and a request, are three events; what the programs do by
themselves is not bounded. device.json: two overlapping changes and a power cut, or a
change between two rewrites of the whole file. Widgets: two pages of one app, so that an
app with two entries, a disabled page, other fields and a shorter list all happen; two
events are any two of a request, a snapshot, a press, a game, a death, a download or
virtualenv that fails and a failed `Popen`, with the threads unbounded; which apps are
there and ready at the start is any. Screens: seven presses other than HOME reach the
deepest page and start a calibration or a deletion there; HOME is not bounded. Reset: two
resets that overlap or follow each other; the network and the bridge change without a
bound (two networks were also checked, in 232,000 states).

**Mutants.** Each property of a passing run has a mutant beside the definition it
changes (a dropped recheck, an old value that wins a merge, a lock not taken, a
report left out); with it TLC finds the property violated.

**Fairness.** *Outbox*: every thread that can take a step eventually does (Python threads
are preemptive, and the timer thread never ends); the clock advances; the bridge reads its
socket, and it does not fail for ever on the same patch (strong fairness of a successful
answer). The last is an assumption about the bridge and the network, without which no
retry can promise anything. *Bridge session*: threads are scheduled, and the loop looks at
a stale bridge again and again (every 10 s). *Sideload*: threads with something to do are
scheduled, as are the observers and the main loop. No app is assumed to exit and no bridge
to disconnect. *Games*: the server thread, the main loop, the download threads,
publications and the delivery of updates to the row go on; a download ends, well or badly,
because its requests have timeouts and its retries are counted. The app and the user are
not fair: they may never command anything again. `DownloadAnswered` and `StartupResumed`
rely on the delivery that `EventuallySettled` shows for the outbox. *Settings*: threads go
on, timers fire, the bridge delivers and acknowledges (as for the outbox), and the server
thread takes its snapshots. Nothing is assumed of the user, the app or the guard's 5 s.
*Downloads*: a thread goes on until its call returns. *Brightness*: the main loop checks
every minute and looks at the override's clock in every round; the check rests in a game.
*Controllers*: the poll is a loop, workers end, and the server thread goes on with its
snapshot. *Firmware*: programs that run end; the patch that clears a request is delivered,
and a snapshot is handled again and again, at least with each heartbeat of the bridge; a
cause of errors need not go away. *Widgets*: the main loop, reloads and patches go on;
downloads, the throttle and games end. *Screens*: workers end, the main loop consumes
their results, and a user who wants to leave keeps pressing HOME and acknowledges the
result of a calibration; `UserIsAnswered` is a statement about such a user, and what could
be wrong is that the screen ignores him for ever. *Reset*: the network loop and the
sequences go on; the bridge, the network and the owner do as they like. The premises of
`DimEnds`, `StatusFollows`, `RequestCleared`, `SnapshotShown` and `NetworkShown` are part
of the properties.

## 4. What is proved

TLAPS proves the following for all constants that satisfy the modules' assumptions
(finite bounds are only natural numbers in them, and threads any set).

* **Outbox.** `TypeCorrect`, `OneEntryPerClass`, `NoPatchLost`, `NewestValuesPending`
  (`PendingIsFreshest`) and `ImplementsDelivery`. The inductive invariant `Inductive` has
  four parts: the types; every ack on its way names a ref the row has applied
  (`AckMeansApplied`); one pending entry per class; each ref of the log is pending or
  applied, or a newer one that covers it is. An ack removes its ref from the pending ones,
  so that the last part needs the second; that a merged entry covers what it absorbed is
  the lemma of `Merged`, and that coverage is transitive carries a ref through any number
  of merges. `NewestValuesPending` needs one part more, `NewestOfClass`: while an entry is
  pending, no later one of its class was created, so that a new value always meets the
  entry it has to replace.
* **Bridge session.** `BridgeTypeCorrect`, `PatchesKept` (`PatchesHaveOutbox`),
  `ConnectedFlagIsTrue` (`ConnectedIsServed`). The argument: a manager in `wire`
  holds the lock, at most one does, and no live process is recorded while it does,
  because `Record` takes the lock as well.
* **Sideload.** `SideloadTypeCorrect`, `SessionInvHolds`, `NoOverlap`
  (`OneOpenSession`), `OneEnd` (`EndsOnce`). The invariant `SessionInv` says who
  may still open, close and clean up a session: sessions above the counter are
  untouched (`Fresh`), the active session is open (`ActiveOpen`), an open session is
  active or in the hands of the thread that is starting it (`Accounted`,
  `Starting`, `Unshared`), and one thread at most cleans up a session
  (`OneCleaner`). `OneOpenSession` follows from `Accounted`: only the holder of
  `_start_lock` launches, after the session it replaces has ended.
* **Games.** `GameTypes`, `OneDownload` (`OneDownloadPerGame`), for any set of games
  and download threads. The inductive invariant adds to the two properties that a
  download thread is idle or at a step of a download, and that a thread at a game has
  one (`ThreadsOK`). That `inflight` is exactly the set of games being downloaded is
  what makes the test in `download_game_async` sufficient: a thread is started only
  for a game outside it, and gives up its game in the step in which it becomes idle.
* **Settings.** `SettingTypes`, `TimerForPending` (`PendingHasTimer`), for any set of
  threads, also several, and any values. The inductive invariant adds `Counted`: each
  change is in its thread, in the timer that waits, or in a loose timer, so that
  there are never more timers than changes; and a thread under way has a value
  (`TasksOK`), so that scheduling never stores None. `RowAndDeviceSettle`
  (`Settled`), for any values and any number of threads and changes. Its invariant `SInv`
  says that snapshots come in the order of their times, one for a time (`Ordered`,
  `Clocks`); that threads which change the setting at the same time are known to cross
  (`CrossingIsKnown`), so that a change which crosses no other schedules what was noted
  (`ScheduledIsNoted`); and, while no thread crosses another and the last value published
  was not of one that did (`Alone`), that the newest value in thread, debouncer, flush and
  outbox is the one noted, which the guard of the server thread lets through
  (`NewestIsNoted`), and that, unless a value was dropped, one is on its way to the row, or a
  snapshot with the row's value is on its way that will be accepted, or has arrived
  (`Converges`). `Accepted` without the exception for the noted value breaks the step
  `Deliver`.
* **Downloads.** `DownloadTypeCorrect`, `KeysAreExclusive`, `ExtractsVerified`
  (`VerifiedOnDisk`) and `ActiveIsWorkedOn` (`ActiveHasWorker`), for any number of
  threads, games and archives. The invariant says what a thread at each step has
  (`JobShapes`), that a key in flight is exactly what one thread holds (`KeysHeld`), and,
  for a thread whose file no other has opened beside it, that nobody else writes there and
  that it finds the archive it has received, or no file (`FilesKept`). Since threads of
  one key exclude each other, what disturbs a file is of another key, which is what
  `VerifiedOnDisk` excludes. The last part cannot be sharpened to "whole": the worker by
  id releases its key before it removes its file, so that the next holder may lose its
  archive, though it never extracts a wrong one. The lemmas of the steps all go through
  `StepEffect`, which says once what a step may do to other threads.
* **Firmware.** `FirmwareTypeCorrect`, `BannerGoes` (`BannerHasUpdate`),
  `UpgradeIsShown` (`UpgradeShown`), `HalfInstalledIsRepaired`
  (`HalfInstalledIsMarked`), with errors of every kind, kernel reboots and any number of
  events. The invariant adds that without overlaps one updater or
  the repair is at work (`OneAtWork`), and that partial files mean an update at work, a
  marker or a cut (`PartialIsMarked`).
* **device.json.** `JsonTypeCorrect`, `SerialNeverLost` (`SerialKept`), `SettingsSurvive`
  (`SettingsKept`), for any number of threads, fields, rewrites and cuts. A copy about to
  be written has the serial number (`CopyHasSerial`); without overlaps one thread changes
  at a time (`OneAuthor`), and what is meant is in the file or in that thread's copy
  (`SettingsSomewhere`).
* **Controllers.** `ControllerTypeCorrect`, `ScanFlagGoes` (`ScanEnds`). The flag is inductive
  as it stands, because a snapshot that starts a scan and the settings page go through one
  operator, after which the caller is about to start the worker, and only the worker's end
  takes the flag away. The types say that an address being
  connected is one of a controller, also after the row has removed it.
* **Brightness.** `DimTypeCorrect`: the levels, the override and the remembered brightness
  (`OverrideIsOfDim`) under any number of setters in other threads.
* **Widgets.** `WidgetTypeCorrect`, `PatchStaysInPlace` (`PatchInPlace`), `DefaultPageStays`
  (`DefaultPageKept`), for any configurations, apps and requesters. The inductive invariant
  `WidgetInv` has a part for each holder of entries of the list: the list itself with its
  default page (`ListPart`), downloads (`FetchPart`), a process being started
  (`StartPart`), reloads (`ReloadPart`) and the soft apply (`PatchPart`). What makes it
  inductive is that a holder either has an entry of today's list or one that belongs to no
  list any more (`DetachOf`), since a reload makes new entries and never changes the order of
  those a list has. `SettledPagesAreOfConf` is the half of
  `SnapshotShown` that is about safety: under `[]Quiet` (no websocket request writes
  conf.json, a premise of `SnapshotShown`), the pages are those of conf.json whenever no
  soft apply and no reload is under way or asked for and no snapshot has left file and list
  apart (`split`). Its invariant `Follows` says that
  until they are, the flag for a reload is set, or the soft apply has still to decide, or the
  main loop is about to drop the list, or the soft apply has brought the pages before the one
  it is at to the new configuration (`Applying`); and that a reload that has read an older
  conf.json will be followed by another.
* **Settings screens.** `ScreensTypeCorrect`, `SweepsEnd`. An overlay covers the page it
  belongs to, also one that a calibration in the background puts up (`OverlayFits`); what is
  joined or deleted is a network (`NamedNetworks`); a sweep that is shown as running has a
  thread that will end it (`SweepHasThread`), and of the sweeps of one settings object only
  the newest runs (`OneSweepRuns`). The last two are what `UserIsAnswered` needs of safety: a
  page that refuses every button has somebody who will release it.
* **Reset.** `ResetTypeCorrect`, `NeverTakenForShown` (`CacheIsTrue`): what the network loop
  holds for published is what the row has, or a refresh is asked for that will make it
  forget, once a refresh was asked for after the last reset; for any number of resets that
  overlap. That is the half of `NetworkShown` that is about safety.
* **The two composed runs.** `ServiceTypesHold` (`ServiceTypeOK`), `ServicesKeepPromises`,
  `DisplayTypesHold` (`DisplayTypeOK`), `DisplayKeepsPromises`. A step of the composition is a
  step of each component or leaves it alone (`ServiceStepOfEach`, `DisplayStepOfEach`), so
  that the conjunction of the inductive invariants is inductive.

For the sideload sessions there is also `DeadAppIsNoticed`, the half of
`DeadAppEndsSession` that is about safety: while the app of the active session does not run,
its observer waits for just that process, or a thread is on its way to watch or to end the
session. It takes two invariants beside `SessionInv`: a new generation of an open session is
in the hands of a thread that will start or clean it up (`Renewing`), and a dead app is
noticed (`Noticing`).

Only model-checked: the liveness properties `EventuallySettled`,
`DeadBridgeReplaced`, `DeadAppEndsSession`, `DownloadAnswered`, `StartupResumed`,
`Agree`, `DownloadEnds`, `DimEnds`, `StatusFollows`, `RequestCleared`, `ShownRuns`,
`SnapshotShown`, `UserIsAnswered` and `NetworkShown`. Fairness is beyond this prover; of
`DownloadEnds`, `DeadAppEndsSession`, `Agree`, `SnapshotShown`, `UserIsAnswered` (as far as
sweeps go) and `NetworkShown` the part that is about safety is proved, that whatever has to
end has somebody who will end it. Every invariant of a passing run is proved.

## 5. What the models show to be wrong

Five runs end in a counterexample to something a comment or docstring says; each is
a `finding` with the lines.

1. `outbox_order`: the flush releases the lock before it sends. A status read
   before, and sent after, the status that replaced it stays in the row, and the
   cache of published statuses suppresses the repetition.
2. `bridge_wedge`: a restart while boot's bridge is being launched leaves a live
   bridge that works, with `_client` None; the watchdog never looks at it.
3. `sideload_leftovers`: a session ended while `update_params` relaunches its app
   leaves that app running with no session to stop it.
4. `game_install_again`: "downloading" for a game that is installed is answered once;
   the mark it leaves behind keeps the published status in the cache, and the next
   "downloading" is answered by nothing.
5. `setting_dropped`: the device returns to the value it published last, after the
   app has written another. The outbox compares with the last acknowledged value
   only, drops the patch, and the row keeps the app's value.

## 6. Plan

What is left, in this order.

1. **Rows** (`supabase_sync_bridge.py:249-810`, `game_ready.py`, `tokenizer.py`): how a
   published row is built and sanitised, the merge of device and row at the first
   connection, the set of ready games.
2. **Clocks of games**: what decides whether a remote "playing" is obeyed
   (`remote_device_config.py:243`, `752`), in `GameInstall`.
3. **Composition** of `GameInstall` with a session that is replaced with its outbox, so
   that a status is lost which the cache takes for published
   (`supabase_sync_bridge.py:1109`); of `Firmware` with two server threads.
4. **Texts that promise less than they seem to**: a download command dropped while one is
   in flight, a startup recovery that fails and is not retried (its log line
   says "(will retry)"), a removed game installed by a download that ends late. All
   are behaviours of `GameInstall` today.
5. **The game menu**: its list and the flag that reloads it, previews, the pause overlay.
6. An abstract specification of a sideload session (opened, ended, restored once), and the
   proof that `Sideload` implements it.
7. The part of `ShownRuns`, `DownloadAnswered` and `RequestCleared` that is about safety, as
   theorems like those of the other liveness properties.

Each hazard without a property in `PROJECT.json` has a note that says which of these it
waits for, or why no property is stated.

## 7. Not modelled, and why

* The preview worker and its cache: a priority queue with a sentinel and files; a fault
  shows only as a picture that is late.
* The dispatch of the websocket server: one request, one operation, one thread; the
  models have those threads. Likewise the adapters BLE, UDP and MCP, which are message
  I/O around the same operations.
* PICO-8 favourites, user data and tokens: small file stores and HTTP clients.
* The input of controllers (`runtime/controller_input.py`), drawing, fonts, frames and
  shared memory: data without control that other parts depend on.
* Package, update and setup scripts: what they install is one word in `Firmware`.
* `bridge`, `watchdog` and `DartsnutRGBMatrix`: binaries without source, modelled as far
  as the Python code sees them.

Of a component that is modelled in part, section 2 says what is left out, and its entry in
`PROJECT.json` says so as well.
