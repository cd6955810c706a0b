------------------------------- MODULE Controllers ------------------------------
(***************************************************************************)
(* Bluetooth controllers: what the device, its list                        *)
(* (python_websocket/remote_bluetooth_sync_controller.py), the system's    *)
(* bonds (bluetooth_operations.py) and the cloud row say of them.          *)
(*                                                                         *)
(* The server thread applies snapshots (runtime/remote_device_config.py);  *)
(* a poll each second, a refresh and the worker of a scan read the bonds   *)
(* and merge them later; the worker of a connection answers it.            *)
(*                                                                         *)
(* A snapshot is any row: what users of the app wrote, or an echo of what  *)
(* the device published, early or late.  Each list that changes is handed  *)
(* to the outbox (module Outbox); nothing here depends on what becomes of  *)
(* it, so of publishing only the time it takes is left, between the flags  *)
(* of a scan or of a connection and the start of its worker.               *)
(***************************************************************************)
EXTENDS Naturals, Sequences, FiniteSets

CONSTANTS
  Mac,                 \* addresses of controllers
  MaxControllerEvent   \* bound: snapshots, and what users, devices and failures do

ASSUME ControllerAssumption == MaxControllerEvent \in Nat

Status  == {"absent", "idle", "connecting", "connected", "error"}
Rows    == [list : [Mac -> Status], found : SUBSET Mac, scan : BOOLEAN]
NoList  == [m \in Mac |-> "absent"]
NoBonds == [m \in Mac |-> "unknown"]
Nobody  == "nobody"
Bonds   == [Mac -> {"unknown", "bonded", "connected"}]

VARIABLES
  bond,        \* bluetoothctl: an address is unknown, bonded, or bonded and connected
  list,        \* _state["controllers"]: the status of an address
  found,       \* _state["scan_results"]
  isScan,      \* _state["is_scan"]
  observed,    \* _observed_connected_macs
  scanner,     \* the scan worker, with the bonds it has read
  connector,   \* the connect worker and its address
  reader,      \* the poll and the refresh: the bonds each has read, if it has
  rowServer,   \* the server thread in a snapshot
  known,       \* last_remote_controller_macs
  cevents

controllerVars == <<bond, list, found, isScan, observed, scanner, connector, reader, rowServer, known,
                    cevents>>
state  == <<list, found, isScan>>

Reading     == {"poll", "refresh"}
NoScan      == [pc |-> "none", bonds |-> NoBonds]
NoConnect   == [pc |-> "none", mac |-> Nobody, ok |-> FALSE]
NoRead      == [pc |-> "none", bonds |-> NoBonds]
NoSnapshot  == [pc |-> "none", row |-> {}, removed |-> {}]
Scanner     == [pc : {"none", "publish", "read", "scan"}, bonds : Bonds]
Connector   == [pc : {"none", "publish", "try", "answer"}, mac : Mac \cup {Nobody}, ok : BOOLEAN]
RowServer   == [pc : {"none", "scan", "start scan", "connect", "start connect", "removed", "unpair"},
                row : SUBSET Rows, removed : SUBSET Mac]

ControllerEvent == cevents < MaxControllerEvent /\ cevents' = cevents + 1
Connected(bonds) == {m \in Mac : bonds[m] = "connected"}
--------------------------------------------------------------------------------
ControllerInit ==
  /\ bond \in [Mac -> {"unknown", "bonded"}]
  /\ list = NoList /\ found = {} /\ isScan = FALSE /\ observed = {Nobody}
  /\ scanner = NoScan /\ connector = NoConnect
  /\ reader = [r \in Reading |-> NoRead] /\ rowServer = NoSnapshot /\ known = {}
  /\ cevents = 0
--------------------------------------------------------------------------------
\* A controller connects to the device by itself, or leaves.
BondChanges(m) ==
  /\ ControllerEvent
  /\ bond[m] # "unknown"
  /\ bond' = [bond EXCEPT ![m] = IF @ = "bonded" THEN "connected" ELSE "bonded"]
  /\ UNCHANGED <<state, observed, scanner, connector, reader, rowServer, known>>
--------------------------------------------------------------------------------
\* Bug: a failed attempt is kept whatever the controller does.
Merge_KeepsError(l, bonds) == [m \in Mac |->
  IF bonds[m] = "unknown" THEN l[m]
  ELSE IF l[m] \in {"connecting", "error"} THEN l[m]
  ELSE IF bonds[m] = "connected" THEN "connected" ELSE "idle"]
\* _merge_remembered_controllers: an attempt that goes on or has failed stays, unless the
\* controller is connected.
Merge(l, bonds) == [m \in Mac |->
  IF bonds[m] = "unknown" THEN l[m]
  ELSE IF bonds[m] = "connected" THEN "connected"
  ELSE IF l[m] \in {"connecting", "error"} THEN l[m] ELSE "idle"]
\* _set_connected_controller_idle, for those that were connected at the last poll.
Left(l, gone) == [m \in Mac |-> IF m \in gone /\ l[m] = "connected" THEN "idle" ELSE l[m]]

\* _load_remembered_controllers of the poll and of the refresh.
ReadBonds(r) ==
  /\ reader[r].pc = "none"
  /\ r = "refresh" => cevents < MaxControllerEvent
  /\ cevents' = IF r = "refresh" THEN cevents + 1 ELSE cevents
  /\ reader' = [reader EXCEPT ![r] = [pc |-> "merge", bonds |-> bond]]
  /\ UNCHANGED <<bond, state, observed, scanner, connector, rowServer, known>>

\* poll_connection_status, and _refresh_worker, which marks nobody as gone.
MergePoll ==
  /\ reader["poll"].pc = "merge"
  /\ LET bonds == reader["poll"].bonds
         gone  == IF observed = {Nobody} THEN {} ELSE observed \ Connected(bonds)
     IN list' = Left(Merge(list, bonds), gone) /\ observed' = Connected(bonds)
  /\ reader' = [reader EXCEPT !["poll"] = NoRead]
  /\ UNCHANGED <<bond, found, isScan, scanner, connector, rowServer, known, cevents>>

MergeRefresh ==
  /\ reader["refresh"].pc = "merge"
  /\ list' = Merge(list, reader["refresh"].bonds)
  /\ reader' = [reader EXCEPT !["refresh"] = NoRead]
  /\ UNCHANGED <<bond, found, isScan, observed, scanner, connector, rowServer, known, cevents>>
--------------------------------------------------------------------------------
\* start_scan_if_requested; with sync, connected controllers that are not listed are added.
Synced(l) == [m \in Mac |-> IF l[m] = "absent" /\ bond[m] = "connected" THEN "connected" ELSE l[m]]

StartScan(l) ==
  /\ scanner' = [NoScan EXCEPT !.pc = "publish"]
  /\ list' = l /\ isScan' = TRUE /\ found' = {}

\* Who has set the flag has published the list, and starts the worker.
ScanStarts ==
  /\ scanner.pc = "publish"
  /\ scanner' = [NoScan EXCEPT !.pc = "read"]
  /\ rowServer' = IF rowServer.pc = "start scan" THEN [rowServer EXCEPT !.pc = "connect"] ELSE rowServer
  /\ UNCHANGED <<bond, state, observed, connector, reader, known, cevents>>

ScanReads ==
  /\ scanner.pc = "read"
  /\ scanner' = [pc |-> "scan", bonds |-> bond]
  /\ UNCHANGED <<bond, state, observed, connector, reader, rowServer, known, cevents>>

\* _discover_filtered_devices: controllers that answer are not connected.
Discoverable == {m \in Mac : bond[m] # "connected"}

\* Bug: the flag is left to the next scan.
ScanFinds_KeepsFlag ==
  /\ scanner.pc = "scan"
  /\ scanner' = NoScan
  /\ list' = Merge(list, scanner.bonds)
  /\ \E f \in SUBSET Discoverable : found' = f
  /\ UNCHANGED <<bond, isScan, observed, connector, reader, rowServer, known, cevents>>

\* The bonds merged are those read before the eight seconds of the scan.
ScanFinds ==
  /\ scanner.pc = "scan"
  /\ scanner' = NoScan
  /\ list' = Merge(list, scanner.bonds)
  /\ \E f \in SUBSET Discoverable : found' = f
  /\ isScan' = FALSE
  /\ UNCHANGED <<bond, observed, connector, reader, rowServer, known, cevents>>

\* start_connect_if_requested, for a listed controller or for one that was found, which
\* leaves the results.
StartConnect(m, rest) ==
  /\ connector' = [pc |-> "publish", mac |-> m, ok |-> FALSE]
  /\ list' = [list EXCEPT ![m] = "connecting"] /\ found' = rest

ConnectStarts ==
  /\ connector.pc = "publish"
  /\ connector' = [connector EXCEPT !.pc = "try"]
  /\ rowServer' = IF rowServer.pc = "start connect" THEN [rowServer EXCEPT !.pc = "removed"] ELSE rowServer
  /\ UNCHANGED <<bond, state, observed, scanner, reader, known, cevents>>

\* pair_and_connect_device: a controller without a bond is looked for and paired, which may
\* take a second attempt; it keeps the bond when the connection fails.
Pair ==
  /\ connector.pc = "try" /\ bond[connector.mac] = "unknown"
  /\ bond' = [bond EXCEPT ![connector.mac] = "bonded"]
  /\ UNCHANGED <<state, observed, scanner, connector, reader, rowServer, known, cevents>>

\* The rest of it, and then the answer of _connect_worker.
TryConnect ==
  /\ connector.pc = "try"
  /\ \/ /\ bond[connector.mac] # "unknown"
        /\ bond' = [bond EXCEPT ![connector.mac] = "connected"]
        /\ connector' = [connector EXCEPT !.pc = "answer", !.ok = TRUE]
        /\ UNCHANGED cevents
     \/ /\ ControllerEvent
        /\ connector' = [connector EXCEPT !.pc = "answer"]
        /\ UNCHANGED bond
  /\ UNCHANGED <<state, observed, scanner, reader, rowServer, known>>

AnswerConnect ==
  /\ connector.pc = "answer"
  /\ list' = [list EXCEPT ![connector.mac] = IF connector.ok THEN "connected" ELSE "error"]
  /\ connector' = NoConnect
  /\ UNCHANGED <<bond, found, isScan, observed, scanner, reader, rowServer, known, cevents>>

\* The controllers page of the settings, unless it is publishing: a scan without sync, a
\* connection.
PagePublishes ==
  \/ scanner.pc = "publish" /\ rowServer.pc # "start scan"
  \/ connector.pc = "publish" /\ rowServer.pc # "start connect"

LocalScan ==
  /\ ControllerEvent /\ scanner.pc = "none" /\ ~PagePublishes
  /\ StartScan(list)
  /\ UNCHANGED <<bond, observed, connector, reader, rowServer, known>>

LocalConnect(m) ==
  /\ ControllerEvent /\ connector.pc = "none" /\ ~PagePublishes
  /\ \/ list[m] \in {"idle", "error"} /\ StartConnect(m, found)
     \/ m \in found /\ StartConnect(m, found \ {m})
  /\ UNCHANGED <<bond, isScan, observed, scanner, reader, rowServer, known>>
--------------------------------------------------------------------------------
\* A snapshot, in the order of RemoteDeviceConfigApplier.apply: the lists are taken over, a
\* scan and connections are started, and controllers that are gone are unpaired.
TakeLists ==
  /\ rowServer.pc = "none" /\ ControllerEvent
  /\ \E r \in Rows : /\ list' = r.list /\ found' = r.found
                     /\ rowServer' = [pc |-> "scan", row |-> {r}, removed |-> {}]
  /\ UNCHANGED <<bond, isScan, observed, scanner, connector, reader, known>>

TakeScan ==
  /\ rowServer.pc = "scan"
  /\ \E r \in rowServer.row :
       IF r.scan /\ scanner.pc = "none"
       THEN StartScan(Synced(list)) /\ rowServer' = [rowServer EXCEPT !.pc = "start scan"]
       ELSE UNCHANGED <<scanner, state>> /\ rowServer' = [rowServer EXCEPT !.pc = "connect"]
  /\ UNCHANGED <<bond, observed, connector, reader, known, cevents>>

\* The app marks a listed controller, or a result, as connecting.  One connection at a time:
\* of several that are asked for the first is started, the others are dropped.
TakeConnect ==
  /\ rowServer.pc = "connect"
  /\ \E r \in rowServer.row :
       LET listed == {m \in Mac : r.list[m] = "connecting"} IN
       \/ /\ connector.pc = "none"
          /\ IF listed # {} THEN \E m \in listed : StartConnect(m, found)
             ELSE \E m \in r.found : StartConnect(m, found \ {m})
          /\ rowServer' = [rowServer EXCEPT !.pc = "start connect"]
       \/ /\ connector.pc # "none" \/ listed = {}
          /\ UNCHANGED <<connector, list, found>>
          /\ rowServer' = [rowServer EXCEPT !.pc = "removed"]
  /\ UNCHANGED <<bond, isScan, observed, scanner, reader, known, cevents>>

TakeRemoved ==
  /\ rowServer.pc = "removed"
  /\ \E r \in rowServer.row :
       LET current == {m \in Mac : r.list[m] # "absent"} IN
       IF r.scan THEN UNCHANGED known /\ rowServer' = NoSnapshot
       ELSE /\ known' = current
            /\ rowServer' = IF known \ current = {} THEN NoSnapshot
                         ELSE [rowServer EXCEPT !.pc = "unpair", !.removed = known \ current]
  /\ UNCHANGED <<bond, state, observed, scanner, connector, reader, cevents>>

\* disconnect_and_unpair_device, one after the other.
Unpair(m) ==
  /\ rowServer.pc = "unpair" /\ m \in rowServer.removed
  /\ bond' = [bond EXCEPT ![m] = "unknown"]
  /\ rowServer' = IF rowServer.removed = {m} THEN NoSnapshot ELSE [rowServer EXCEPT !.removed = @ \ {m}]
  /\ UNCHANGED <<state, observed, scanner, connector, reader, known, cevents>>
--------------------------------------------------------------------------------
PollStep    == ReadBonds("poll") \/ MergePoll
ScanStep    == ScanStarts \/ ScanReads \/ ScanFinds
ConnectStep == ConnectStarts \/ Pair \/ TryConnect \/ AnswerConnect
ServerStep  == TakeScan \/ TakeConnect \/ TakeRemoved \/ \E m \in Mac : Unpair(m)

ControllerNext ==
  \/ PollStep \/ ReadBonds("refresh") \/ MergeRefresh \/ ScanStep \/ ConnectStep
  \/ TakeLists \/ ServerStep \/ LocalScan
  \/ \E m \in Mac : BondChanges(m) \/ LocalConnect(m)

ControllerSpec == ControllerInit /\ [][ControllerNext]_controllerVars

\* The poll is a loop, workers end, the server thread goes on with its snapshot.
ControllerFairness ==
  /\ WF_controllerVars(PollStep) /\ WF_controllerVars(MergeRefresh)
  /\ WF_controllerVars(ScanStep) /\ WF_controllerVars(ConnectStep)
  /\ WF_controllerVars(ServerStep)

ControllerFairSpec == ControllerSpec /\ ControllerFairness
--------------------------------------------------------------------------------
ControllerTypeOK ==
  /\ bond \in Bonds
  /\ list \in [Mac -> Status] /\ found \subseteq Mac /\ isScan \in BOOLEAN
  /\ observed \subseteq Mac \cup {Nobody}
  /\ scanner \in Scanner /\ connector \in Connector /\ rowServer \in RowServer
  /\ reader \in [Reading -> [pc : {"none", "merge"}, bonds : Bonds]]
  /\ connector.pc # "none" => connector.mac \in Mac
  /\ known \subseteq Mac /\ cevents \in 0..MaxControllerEvent

\* A controller that stays connected is shown as connected again and again, and one that
\* stays bonded without a connection as something else, whatever snapshots, scans and
\* attempts say in between (poll_connection_status).
StatusFollows ==
  \A m \in Mac : /\ <>[](bond[m] = "connected") => []<>(list[m] = "connected")
                 /\ <>[](bond[m] = "bonded")    => []<>(list[m] # "connected")

\* The flag of a scan is not left set: a scan is running whenever the list says so.
ScanEnds == isScan => scanner.pc # "none"
================================================================================
