----------------------------- MODULE RemoteSettings ----------------------------
(***************************************************************************)
(* A setting (volume or brightness) that the device and the app both       *)
(* change.  Buttons and websocket requests change it on the device         *)
(* (main.py), which publishes it after a debounce                          *)
(* (runtime/settings_sync_debounce.py) through the outbox to the cloud     *)
(* row.  Snapshots of the row pass the reducer (runtime/sync/reducer.py)   *)
(* and a guard of recent local changes (runtime/remote_device_config.py),  *)
(* and are then stored on the device.                                      *)
(*                                                                         *)
(* Times are numbers that only order: every change of the row and every    *)
(* local change takes a new one.  That the 5 seconds of the guard are over *)
(* may happen at any time.  Of the 2 seconds of the debounce only this is  *)
(* used: a flush has handed its value over before another timer fires.     *)
(*                                                                         *)
(* The outbox is taken as OnePendingPerClass and PatchDelivery promise it: *)
(* one pending entry, delivered at some time and acknowledged after it.    *)
(***************************************************************************)
EXTENDS Naturals, Sequences

CONSTANTS
  Value,       \* of the setting
  Setter,      \* threads that change it on the device
  MaxChange,   \* bound: changes and publications of other things in a behaviour
  Nothing      \* stands for None

ASSUME SettingAssumption ==
  /\ MaxChange \in Nat
  /\ Nothing \notin Value \cup [value : Value, at : Nat] \cup [value : Value, applied : BOOLEAN]

Snapshot == [value : Value, at : Nat, from : {"app", "bridge"}]
Maybe    == Value \cup {Nothing}
Task     == [step : {"idle", "set", "note", "schedule"}, value : Maybe, publish : BOOLEAN]

VARIABLES
  row,       \* the cloud row
  inbox,     \* snapshots on their way to the device
  now,       \* the last time taken
  changes,   \* changes so far
  seen,      \* last_row_updated_at
  print,     \* last_snapshot_fingerprint: it has all that a snapshot has
  server,    \* the value the server thread is about to store
  dev,       \* the value in device.json
  noted,     \* local_setting_value and local_setting_changed_at
  guard,     \* the change noted is less than 5 seconds old
  task,      \* where a thread is in set_volume or set_brightness
  pending,   \* the debouncer's value to publish
  armed,     \* its timer in _timers is waiting
  loose,     \* how many other timers will still run _flush
  taken,     \* the value a flush has taken and not yet handed over
  entry,     \* the outbox's pending entry
  acked,     \* _last_acked_scalars
  lost,      \* the device has a value that nobody will publish
  crossing,  \* threads whose change has overlapped one of another thread
  crossed    \* the last change published was one of those

cloud     == <<row, inbox, now, changes>>
inbound   == <<seen, print, server>>
local     == <<noted, guard, task, crossing, crossed>>
debouncer == <<pending, armed, loose, taken>>
outbox    == <<entry, acked>>
settingVars     == <<cloud, inbound, dev, local, debouncer, outbox, lost>>

Idle == [step |-> "idle", value |-> Nothing, publish |-> FALSE]
--------------------------------------------------------------------------------
\* Device and row agree, whoever wrote the row.
SettingInit ==
  /\ row \in [value : Value, at : {1}, from : {"app", "bridge"}]
  /\ inbox = <<>> /\ now = 1 /\ changes = 0
  /\ seen = 1 /\ print = row /\ server = Nothing
  /\ dev = row.value
  /\ noted = Nothing /\ guard = FALSE
  /\ task = [t \in Setter |-> Idle]
  /\ pending = Nothing /\ armed = FALSE /\ loose = 0 /\ taken = Nothing
  /\ entry = Nothing /\ acked \in {Nothing, row.value}
  /\ lost = FALSE /\ crossing = {} /\ crossed = FALSE
--------------------------------------------------------------------------------
\* The row, the app and the bridge.
Change ==
  /\ changes < MaxChange
  /\ changes' = changes + 1

Write(v, from) ==
  /\ now' = now + 1
  /\ row' = [value |-> v, at |-> now', from |-> from]
  /\ inbox' = Append(inbox, row')

\* The app changes the setting; the device publishes something else; the bridge
\* sends the row once more.
AppSets ==
  /\ Change
  /\ \E v \in Value : Write(v, "app")
  /\ lost' = (lost /\ entry # Nothing)
  /\ UNCHANGED <<inbound, dev, local, debouncer, outbox>>

OtherPublished ==
  /\ Change
  /\ Write(row.value, "bridge")
  /\ UNCHANGED <<inbound, dev, local, debouncer, outbox, lost>>

SentAgain ==
  /\ Change
  /\ inbox' = Append(inbox, row)
  /\ UNCHANGED <<row, now, inbound, dev, local, debouncer, outbox, lost>>
--------------------------------------------------------------------------------
\* A change on the device: set_volume, set_brightness.
Goes(t, step) == task' = [task EXCEPT ![t].step = step]

Others(t) == {u \in Setter \ {t} : task[u].step # "idle"}

\* A change is published if it differs from what is stored.
SetBegins(t) ==
  /\ task[t].step = "idle" /\ Change
  /\ \E v \in Value : task' = [task EXCEPT ![t] = [step |-> "set", value |-> v, publish |-> dev # v]]
  /\ crossing' = IF Others(t) = {} THEN crossing ELSE crossing \cup Others(t) \cup {t}
  /\ UNCHANGED <<row, inbox, now, inbound, dev, noted, guard, debouncer, outbox, lost, crossed>>

\* What was stored may have changed in between.
Set(t) ==
  /\ task[t].step = "set"
  /\ dev' = task[t].value
  /\ IF task[t].publish
     THEN Goes(t, "note") /\ UNCHANGED <<lost, crossing, crossed>>
     ELSE /\ task' = [task EXCEPT ![t] = Idle] /\ lost' = (lost \/ dev # task[t].value)
          /\ crossing' = crossing \ {t} /\ crossed' = (crossed \/ t \in crossing)
  /\ UNCHANGED <<cloud, inbound, noted, guard, debouncer, outbox>>

\* note_local_setting_change
Note(t) ==
  /\ task[t].step = "note"
  /\ now' = now + 1
  /\ noted' = [value |-> task[t].value, at |-> now'] /\ guard' = TRUE
  /\ Goes(t, "schedule")
  /\ UNCHANGED <<row, inbox, changes, inbound, dev, debouncer, outbox, lost, crossing, crossed>>

GuardEnds ==
  /\ guard /\ guard' = FALSE
  /\ UNCHANGED <<cloud, inbound, dev, noted, task, debouncer, outbox, lost, crossing, crossed>>
--------------------------------------------------------------------------------
\* The debouncer.

\* The old timer is cancelled and none started.
Schedule_Cancels(t) ==
  /\ task[t].step = "schedule"
  /\ pending' = task[t].value
  /\ armed' = ~armed
  /\ task' = [task EXCEPT ![t] = Idle]
  /\ crossing' = crossing \ {t} /\ crossed' = (t \in crossing)
  /\ UNCHANGED <<cloud, inbound, dev, noted, guard, loose, taken, outbox, lost>>

\* A waiting timer is cancelled and replaced; one that has fired is not stopped.
Schedule(t) ==
  /\ task[t].step = "schedule"
  /\ pending' = task[t].value
  /\ armed' = TRUE
  /\ task' = [task EXCEPT ![t] = Idle]
  /\ crossing' = crossing \ {t} /\ crossed' = (t \in crossing)
  /\ UNCHANGED <<cloud, inbound, dev, noted, guard, loose, taken, outbox, lost>>

\* A timer that starts again when it has fired.
Fire_Again ==
  /\ armed
  /\ UNCHANGED armed /\ loose' = loose + 1
  /\ UNCHANGED <<cloud, inbound, dev, local, pending, taken, outbox, lost>>

Fire ==
  /\ armed
  /\ armed' = FALSE /\ loose' = loose + 1
  /\ UNCHANGED <<cloud, inbound, dev, local, pending, taken, outbox, lost>>

\* A flush takes whatever is pending, and the timer in _timers, which may be a newer
\* one and runs all the same.
Flush ==
  /\ loose > 0 /\ taken = Nothing
  /\ taken' = pending /\ pending' = Nothing
  /\ armed' = FALSE
  /\ loose' = IF armed THEN loose ELSE loose - 1
  /\ UNCHANGED <<cloud, inbound, dev, local, outbox, lost>>
--------------------------------------------------------------------------------
\* The outbox.

\* What is pending is not replaced.
HandOver_Keeps ==
  /\ taken # Nothing
  /\ taken' = Nothing
  /\ IF acked = taken
     THEN lost' = TRUE /\ UNCHANGED entry
     ELSE /\ entry' = IF entry = Nothing THEN [value |-> taken, applied |-> FALSE] ELSE entry
          /\ lost' = FALSE
  /\ UNCHANGED <<cloud, inbound, dev, local, pending, armed, loose, acked>>

\* A value equal to the last acknowledged one is dropped; any other replaces what is
\* pending.
HandOver ==
  /\ taken # Nothing
  /\ taken' = Nothing
  /\ IF acked = taken
     THEN lost' = TRUE /\ UNCHANGED entry
     ELSE entry' = [value |-> taken, applied |-> FALSE] /\ lost' = FALSE
  /\ UNCHANGED <<cloud, inbound, dev, local, pending, armed, loose, acked>>

Deliver ==
  /\ entry # Nothing /\ ~entry.applied
  /\ Write(entry.value, "bridge")
  /\ entry' = [entry EXCEPT !.applied = TRUE]
  /\ UNCHANGED <<changes, inbound, dev, local, debouncer, acked, lost>>

Ack ==
  /\ entry # Nothing /\ entry.applied
  /\ acked' = entry.value /\ entry' = Nothing
  /\ UNCHANGED <<cloud, inbound, dev, local, debouncer, lost>>
--------------------------------------------------------------------------------
\* The server thread.

\* The reducer: a repeated snapshot is refused, and one of the device's own that is
\* no newer than the newest.
Refused(s) ==
  print = s \/ (s.from = "bridge" /\ s.at <= seen)

\* Without the exception for the value noted.
Accepted_NotEqual(s) ==
  \/ noted = Nothing \/ ~guard
  \/ s.from = "app" /\ s.at > noted.at

\* should_accept_remote_setting, for a recent local change.
Accepted(s) ==
  \/ noted = Nothing \/ ~guard
  \/ s.value = noted.value
  \/ s.from = "app" /\ s.at > noted.at

Receive ==
  /\ server = Nothing /\ inbox # <<>>
  /\ inbox' = Tail(inbox)
  /\ LET s == Head(inbox)
     IN  IF Refused(s)
         THEN UNCHANGED inbound
         ELSE /\ seen' = IF s.at > seen THEN s.at ELSE seen
              /\ print' = s
              /\ server' = IF s.value # dev /\ Accepted(s) THEN s.value ELSE Nothing
  /\ UNCHANGED <<row, now, changes, dev, local, debouncer, outbox, lost>>

Store ==
  /\ server # Nothing
  /\ dev' = server /\ server' = Nothing
  /\ UNCHANGED <<cloud, seen, print, local, debouncer, outbox, lost>>
--------------------------------------------------------------------------------
SettingStep == Fire \/ Flush \/ HandOver \/ Deliver \/ Ack \/ Receive \/ Store

SettingNext ==
  \/ AppSets \/ OtherPublished \/ SentAgain
  \/ \E t \in Setter : SetBegins(t) \/ Set(t) \/ Note(t) \/ Schedule(t)
  \/ GuardEnds
  \/ SettingStep

SettingSpec == SettingInit /\ [][SettingNext]_settingVars

\* The threads go on, a timer fires, and the outbox and the bridge deliver.
SettingFairness ==
  /\ \A t \in Setter : WF_settingVars(Set(t)) /\ WF_settingVars(Note(t)) /\ WF_settingVars(Schedule(t))
  /\ WF_settingVars(Fire) /\ WF_settingVars(Flush) /\ WF_settingVars(HandOver)
  /\ WF_settingVars(Deliver) /\ WF_settingVars(Ack) /\ WF_settingVars(Receive) /\ WF_settingVars(Store)

SettingFairSpec == SettingSpec /\ SettingFairness
--------------------------------------------------------------------------------
SettingTypeOK ==
  /\ row \in Snapshot /\ inbox \in Seq(Snapshot) /\ now \in Nat /\ changes \in 0..MaxChange
  /\ seen \in Nat /\ print \in Snapshot /\ server \in Maybe
  /\ dev \in Value
  /\ noted \in [value : Value, at : Nat] \cup {Nothing} /\ guard \in BOOLEAN
  /\ task \in [Setter -> Task]
  /\ pending \in Maybe /\ armed \in BOOLEAN /\ loose \in 0..changes /\ taken \in Maybe
  /\ entry \in [value : Value, applied : BOOLEAN] \cup {Nothing} /\ acked \in Maybe
  /\ lost \in BOOLEAN /\ crossing \subseteq Setter /\ crossed \in BOOLEAN

\* A value to publish always has a timer that will take it: cancelling and popping
\* timers never leaves one behind (settings_sync_debounce.py).
PendingHasTimer == pending # Nothing => armed \/ loose > 0

Quiet ==
  /\ inbox = <<>> /\ server = Nothing
  /\ \A t \in Setter : task[t].step = "idle"
  /\ pending = Nothing /\ taken = Nothing /\ entry = Nothing

\* When nothing is under way, device and row agree, whatever the order of local
\* changes, echoes and changes of the app, unless a value was dropped on its way to
\* the row (by the outbox, which takes it for delivered, or by set_volume, which
\* takes it for stored), or the last change published overlapped one of another
\* thread: what is stored last and what is scheduled last may then be two values.
Settled == Quiet => dev = row.value \/ lost \/ crossed

\* What the debouncer's description says, "Publish settings patches after a quiet
\* period following rapid local changes" (settings_sync_debounce.py:15): once all is
\* quiet, the row has the last change noted, unless it has been written since.
Published ==
  Quiet /\ noted # Nothing /\ dev = noted.value /\ row.at < noted.at => row.value = dev

\* And they come to agree in the end.
Agree == <>[](Quiet /\ (dev = row.value \/ lost \/ crossed))
================================================================================
