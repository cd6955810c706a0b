-------------------------------- MODULE DimWindow -------------------------------
(***************************************************************************)
(* Brightness of the panel: the setters of main.py and                     *)
(* machine_state_service.py, the one second transition between two values, *)
(* and the dim window of runtime/display_loop.py with its override by      *)
(* button.                                                                 *)
(*                                                                         *)
(* The main loop runs the transition, the check and the buttons; setters   *)
(* are threads of requests and of remote snapshots, and the settings       *)
(* screen.  Raw brightness is a small number; logical level l has the raw  *)
(* value Raw(l), and every value between two of them can be shown while a  *)
(* transition runs.  The clock and the configuration only say whether the  *)
(* window is open.                                                         *)
(***************************************************************************)
EXTENDS Naturals

CONSTANTS
  BrightnessSetter,  \* threads that set the brightness
  Levels             \* bound: logical levels 0..Levels-1

ASSUME DimAssumption == Levels \in Nat \ {0}

Level    == 0..(Levels - 1)
Raw(l)   == 2 * l + 3
DimRaw   == 1                       \* dim_level of device.json
RawValue == DimRaw..Raw(Levels - 1)
NoTarget == 0
NoRaw    == 0

VARIABLES
  panel,       \* the brightness last set on the hardware
  target,      \* of the running transition, NoTarget when none runs
  stored,      \* the level in device.json
  dimmed,      \* currently_in_dim_window
  before,      \* brightness_before_dim
  forced,      \* dim_force_normal_brightness
  window,      \* whether the check finds the window enabled and open
  inGame,      \* the screen is a game or the choice of one
  setter       \* what a setter does: its next step, the level, whether it saw dimmed

dimVars == <<panel, target, stored, dimmed, before, forced, window, inGame, setter>>

Between(a, b) == {v \in RawValue : (a <= v /\ v <= b) \/ (b <= v /\ v <= a)}
SetterIdle    == [pc |-> "idle", level |-> 0]
--------------------------------------------------------------------------------
DimInit ==
  /\ stored \in Level
  /\ panel = Raw(stored)
  /\ target = NoTarget
  /\ dimmed = FALSE /\ before = NoRaw /\ forced = FALSE
  /\ window \in BOOLEAN /\ inGame = FALSE
  /\ setter = [s \in BrightnessSetter |-> SetterIdle]

\* _start_brightness_transition: a running transition is replaced, from the value it
\* has reached by now.  When this is the new target, no transition is started and the
\* running one ends where the last frame left it.
Transition(goal) ==
  \E from \in IF target = NoTarget THEN {panel} ELSE Between(panel, target) :
    target' = IF from = goal THEN NoTarget ELSE goal

\* _update_brightness_transition, during the second and at its end.
TransitionFrame ==
  /\ target # NoTarget
  /\ \E v \in Between(panel, target) : panel' = v
  /\ UNCHANGED <<target, stored, dimmed, before, forced, window, inGame, setter>>

TransitionEnd ==
  /\ target # NoTarget
  /\ panel' = target
  /\ target' = NoTarget
  /\ UNCHANGED <<stored, dimmed, before, forced, window, inGame, setter>>
--------------------------------------------------------------------------------
\* The value shown when dimming ends.
Normal == IF before # NoRaw THEN before ELSE Raw(stored)

\* The check of the main loop, each minute and when a game is left.  In the window
\* the dim level is asked for again by every check.
EnterDim ==
  /\ window /\ ~inGame /\ ~forced
  /\ dimmed' = TRUE
  /\ before' = IF dimmed THEN before ELSE Raw(stored)
  /\ Transition(DimRaw)
  /\ UNCHANGED <<panel, stored, forced, window, inGame, setter>>

LeaveDim_NotWhileForced ==
  /\ ~window /\ dimmed /\ ~forced
  /\ dimmed' = FALSE
  /\ Transition(Normal)
  /\ UNCHANGED <<panel, stored, before, forced, window, inGame, setter>>

LeaveDim ==
  /\ ~window /\ dimmed
  /\ dimmed' = FALSE /\ forced' = FALSE
  /\ Transition(Normal)
  /\ UNCHANGED <<panel, stored, before, window, inGame, setter>>

\* Button A shows the normal brightness; button B, or dim_restore_seconds later the
\* clock, dims again.  Neither happens in a game, or while a page takes button B.
ForceNormal ==
  /\ dimmed /\ ~inGame /\ ~forced
  /\ forced' = TRUE
  /\ Transition(Normal)
  /\ UNCHANGED <<panel, stored, dimmed, before, window, inGame, setter>>

DimAgain_ButtonOnly ==
  /\ dimmed /\ ~inGame /\ forced /\ window
  /\ forced' = FALSE
  /\ Transition(DimRaw)
  /\ UNCHANGED <<panel, stored, dimmed, before, window, inGame, setter>>

DimAgain ==
  /\ dimmed /\ ~inGame /\ forced
  /\ forced' = FALSE
  /\ Transition(DimRaw)
  /\ UNCHANGED <<panel, stored, dimmed, before, window, inGame, setter>>
--------------------------------------------------------------------------------
\* set_brightness of main.py looks at the dim window first.
SetBrightness(s, l) ==
  /\ setter[s].pc = "idle"
  /\ setter' = [setter EXCEPT ![s] = [pc |-> IF dimmed THEN "apply dimmed" ELSE "apply", level |-> l]]
  /\ UNCHANGED <<panel, target, stored, dimmed, before, forced, window, inGame>>

\* A remote snapshot and the settings screen call the service without looking.
SetByService(s, l) ==
  /\ setter[s].pc = "idle"
  /\ setter' = [setter EXCEPT ![s] = [pc |-> "apply", level |-> l]]
  /\ UNCHANGED <<panel, target, stored, dimmed, before, forced, window, inGame>>

\* MachineStateService.set_brightness: the hardware, then device.json.
ApplyBrightness(s) ==
  /\ setter[s].pc \in {"apply", "apply dimmed"}
  /\ panel' = Raw(setter[s].level)
  /\ setter' = [setter EXCEPT ![s].pc = IF @ = "apply" THEN "persist" ELSE "persist dimmed"]
  /\ UNCHANGED <<target, stored, dimmed, before, forced, window, inGame>>

PersistBrightness(s) ==
  /\ setter[s].pc \in {"persist", "persist dimmed"}
  /\ stored' = setter[s].level
  /\ setter' = [setter EXCEPT ![s] = IF @.pc = "persist" THEN SetterIdle ELSE [@ EXCEPT !.pc = "remember"]]
  /\ UNCHANGED <<panel, target, dimmed, before, forced, window, inGame>>

RememberBrightness(s) ==
  /\ setter[s].pc = "remember"
  /\ before' = Raw(setter[s].level)
  /\ setter' = [setter EXCEPT ![s] = SetterIdle]
  /\ UNCHANGED <<panel, target, stored, dimmed, forced, window, inGame>>
--------------------------------------------------------------------------------
\* The hour and the configuration; the user enters and leaves games.
WindowChanges ==
  /\ window' = ~window
  /\ UNCHANGED <<panel, target, stored, dimmed, before, forced, inGame, setter>>

ScreenChanges ==
  /\ inGame' = ~inGame
  /\ UNCHANGED <<panel, target, stored, dimmed, before, forced, window, setter>>

DimNext ==
  \/ TransitionFrame \/ TransitionEnd
  \/ EnterDim \/ LeaveDim \/ ForceNormal \/ DimAgain
  \/ \E s \in BrightnessSetter :
       \/ \E l \in Level : SetBrightness(s, l) \/ SetByService(s, l)
       \/ ApplyBrightness(s) \/ PersistBrightness(s) \/ RememberBrightness(s)
  \/ WindowChanges \/ ScreenChanges

DimSpec == DimInit /\ [][DimNext]_dimVars

\* The main loop runs the check every minute and looks at the clock of the override
\* in every round.
DimFairness == WF_dimVars(EnterDim) /\ WF_dimVars(LeaveDim) /\ WF_dimVars(DimAgain)
--------------------------------------------------------------------------------
\* The override is one of the dimmed mode, which always knows the brightness it replaced.
OverrideIsOfDim == (forced => dimmed) /\ (dimmed => before # NoRaw)

DimTypeOK ==
  /\ panel \in RawValue
  /\ target \in RawValue \cup {NoTarget}
  /\ stored \in Level
  /\ before \in RawValue \cup {NoRaw}
  /\ dimmed \in BOOLEAN /\ forced \in BOOLEAN /\ window \in BOOLEAN /\ inGame \in BOOLEAN
  /\ setter \in [BrightnessSetter ->
       [pc : {"idle", "apply", "apply dimmed", "persist", "persist dimmed", "remember"},
        level : Level]]
  /\ OverrideIsOfDim

\* Whatever the user pressed and wherever he was when the window closed, the panel does not
\* stay in the dimmed mode, and the override does not outlive the window: one that is left
\* behind would keep the next window from dimming.  Within the window the override ends
\* too, unless the user goes to a game (runtime/display_loop.py).
DimEnds ==
  /\ <>[]~window => <>[](~dimmed /\ ~forced)
  /\ []<>(~forced \/ inGame)
================================================================================
