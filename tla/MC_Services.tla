------------------------------- MODULE MC_Services ------------------------------
(***************************************************************************)
(* The services of the device, the downloads over the websocket, the dim   *)
(* window, the controllers, the firmware, device.json and the bridge       *)
(* process, in one run; they share no state. A behaviour runs one of them, *)
(* the focus of its initial state, and leaves the others where they start; *)
(* the fairness of a component is the one its module states, in the        *)
(* behaviours that run it.                                                 *)
(***************************************************************************)
EXTENDS FileDownload, DimWindow, Controllers, Firmware, DeviceJson, BridgeSession, TLC

CONSTANTS g1, a1, a2, f1

VARIABLE focus   \* the component a behaviour runs

MCOffered == g1 :> {a1, a2}         \* the backend names another key from some time on
MCFileOf  == a1 :> f1 @@ a2 :> f1   \* the urls of the two end in the same name

\* A component out of focus starts in one of its initial states.
ServiceInit ==
  /\ focus \in {"downloads", "dim", "controllers", "firmware", "json", "bridge"}
  /\ DownloadInit
  /\ DimInit
  /\ ControllerInit
  /\ FirmwareInit
  /\ JsonInit
  /\ BridgeInit
  /\ focus # "dim" => stored = 0 /\ ~window
  /\ focus # "controllers" => bond = NoBonds
  /\ focus # "json" => bootSerial
  /\ focus # "firmware" => ~hindered

\* What is not in focus stays.
Still ==
  /\ focus' = focus
  /\ IF focus = "downloads" THEN TRUE ELSE UNCHANGED dvars
  /\ IF focus = "dim" THEN TRUE ELSE UNCHANGED dimVars
  /\ IF focus = "controllers" THEN TRUE ELSE UNCHANGED controllerVars
  /\ IF focus = "firmware" THEN TRUE ELSE UNCHANGED firmwareVars
  /\ IF focus = "json" THEN TRUE ELSE UNCHANGED jsonVars
  /\ IF focus = "bridge" THEN TRUE ELSE UNCHANGED bvars

ServiceNext ==
  /\ Still
  /\ \/ focus = "downloads" /\ DownloadNext
     \/ focus = "dim" /\ DimNext
     \/ focus = "controllers" /\ ControllerNext
     \/ focus = "firmware" /\ FirmwareNext
     \/ focus = "json" /\ JsonNext
     \/ focus = "bridge" /\ BridgeNext

serviceVars == <<focus, dvars, dimVars, controllerVars, firmwareVars, jsonVars, bvars>>

ServiceFairness ==
  /\ \A t \in DownloadThread : WF_dvars(focus = "downloads" /\ DownloadStep(t))
  /\ WF_dimVars(focus = "dim" /\ EnterDim)
  /\ WF_dimVars(focus = "dim" /\ LeaveDim)
  /\ WF_dimVars(focus = "dim" /\ DimAgain)
  /\ WF_controllerVars(focus = "controllers" /\ PollStep)
  /\ WF_controllerVars(focus = "controllers" /\ MergeRefresh)
  /\ WF_controllerVars(focus = "controllers" /\ ScanStep)
  /\ WF_controllerVars(focus = "controllers" /\ ConnectStep)
  /\ WF_controllerVars(focus = "controllers" /\ ServerStep)
  /\ WF_firmwareVars(focus = "firmware" /\ ClearArrives)
  /\ WF_firmwareVars(focus = "firmware" /\ Snapshot2)
  /\ WF_firmwareVars(focus = "firmware" /\ RepairStep)
  /\ \A u \in Updater : WF_firmwareVars(focus = "firmware" /\ UpdateStep(u))
  /\ WF_bvars(focus = "bridge" /\ Stale /\ Restart)
  /\ WF_bvars(focus = "bridge" /\ Stops)
  /\ \A m \in Manager : WF_bvars(focus = "bridge" /\ Manages(m))
  /\ \A n \in Session : /\ WF_bvars(focus = "bridge" /\ Launches(n))
                        /\ WF_bvars(focus = "bridge" /\ Serves(n))

ServiceSpec == ServiceInit /\ [][ServiceNext]_serviceVars /\ ServiceFairness

\* The variables of all six components have their types.
ServiceTypeOK ==
  DownloadTypeOK /\ DimTypeOK /\ ControllerTypeOK /\ FirmwareTypeOK /\ JsonTypeOK /\ BridgeTypeOK
=================================================================================
