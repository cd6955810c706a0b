------------------------------- MODULE MC_Display -------------------------------
(***************************************************************************)
(* What the main loop shows, the widget pages and the settings screens,    *)
(* and the reset that is started there, in one run; they share no state.   *)
(* A behaviour runs one of them, the focus of its initial state, and       *)
(* leaves the others where they start; the fairness of a component is the  *)
(* one its module states, in the behaviours that run it.                   *)
(***************************************************************************)
EXTENDS Widgets, Screens, DeviceReset

VARIABLE focus   \* the component a behaviour runs

\* Two pages of one app; the same with other fields and the second disabled; one page.
Page(u, fields, on) == [uuid |-> u, app |-> "a", fields |-> fields, enabled |-> on]
MCBootConf == <<Page(1, 1, TRUE), Page(2, 1, TRUE)>>
MCPageConf == {MCBootConf, <<Page(1, 2, TRUE), Page(2, 1, FALSE)>>, <<Page(2, 1, TRUE)>>}

\* A component out of focus starts in one of its initial states.
DisplayInit ==
  /\ focus \in {"widgets", "screens", "reset"}
  /\ WidgetInit
  /\ ScreensInit
  /\ ResetInit
  /\ focus # "widgets" => apps = {} /\ home = "menu" /\ pages[Len(pages)].proc = "stopped"
  /\ focus # "screens" => joined = NoSsid
  /\ focus # "reset" => network = Nowhere /\ row = Nowhere

\* What is not in focus stays.
Still ==
  /\ focus' = focus
  /\ IF focus = "widgets" THEN TRUE ELSE UNCHANGED widgetVars
  /\ IF focus = "screens" THEN TRUE ELSE UNCHANGED screenVars
  /\ IF focus = "reset" THEN TRUE ELSE UNCHANGED resetVars

DisplayNext ==
  /\ Still
  /\ \/ focus = "widgets" /\ WidgetNext
     \/ focus = "screens" /\ ScreensNext
     \/ focus = "reset" /\ ResetNext

displayVars == <<focus, widgetVars, screenVars, resetVars>>

DisplayFairness ==
  /\ WF_widgetVars(focus = "widgets" /\ WidgetLoop)
  /\ WF_widgetVars(focus = "widgets" /\ GameExits)
  /\ WF_widgetVars(focus = "widgets" /\ PatchStep)
  /\ \A w \in Reloader : WF_widgetVars(focus = "widgets" /\ ReloadStep(w))
  /\ \A a \in App : /\ WF_widgetVars(focus = "widgets" /\ (FetchInstalls(a) \/ FetchEnds(a)))
                    /\ WF_widgetVars(focus = "widgets" /\ (TellPage(a) \/ KillInactive(a)))
                    /\ WF_widgetVars(focus = "widgets" /\ ThrottleEnds(a))
  /\ WF_screenVars(focus = "screens" /\ (WifiScanReads \/ WifiScanEnds))
  /\ WF_screenVars(focus = "screens" /\ WifiConnectEnds)
  /\ WF_screenVars(focus = "screens" /\ WifiForgetEnds)
  /\ WF_screenVars(focus = "screens" /\ Consume)
  /\ \A k \in Sweep : WF_screenVars(focus = "screens" /\ SweepStep(k))
  /\ WF_screenVars(focus = "screens" /\ PressHome)
  /\ WF_screenVars(focus = "screens" /\ AcknowledgeCalibration)
  /\ WF_resetVars(focus = "reset" /\ LoopStep)
  /\ \A r \in Resetter : WF_resetVars(focus = "reset" /\ ResetStep(r))

DisplaySpec == DisplayInit /\ [][DisplayNext]_displayVars /\ DisplayFairness

\* The variables of all three components have their types.
DisplayTypeOK ==
  WidgetTypeOK /\ ScreensTypeOK /\ ResetTypeOK
=================================================================================
