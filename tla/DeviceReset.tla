------------------------------- MODULE DeviceReset ------------------------------
(***************************************************************************)
(* The factory reset and the network state loop of main.py, which both     *)
(* write the network of the device to its row.                             *)
(*                                                                         *)
(* A reset is a thread that clears the row, waits for a snapshot that      *)
(* confirms it (runtime/reset_workflow.py), forgets the Wi-Fi and erases   *)
(* what the owner left.  The loop publishes the network when it differs    *)
(* from what it published last, and forgets that when a refresh was asked  *)
(* for; it rests while a reset runs.                                       *)
(*                                                                         *)
(* The row has the fields of the last patch that was published (Outbox is  *)
(* about their delivery); a patch is dropped when the session is being     *)
(* replaced, which the loop does not learn.  Of ip, ssid and signal, ssid  *)
(* stands for the network.  What is erased one by one is a set of items.   *)
(***************************************************************************)
EXTENDS Naturals

CONSTANTS
  Resetter,     \* threads of resets
  Network,      \* networks to join
  Item,         \* what a reset erases: processes, user data, apps, settings
  Nowhere,      \* none: an empty field of the row
  Unknown,      \* the loop has published nothing: last_published_* = None
  MaxReset      \* bound: resets in a behaviour

ASSUME ResetAssumption ==
  /\ Nowhere \notin Network /\ Unknown \notin Network \cup {Nowhere}
  /\ MaxReset \in Nat

VARIABLES
  network,      \* the network the device is on
  online,       \* is_connected of the bridge
  row,          \* the network of the row
  published,    \* what the loop has published last
  refresh,      \* _network_state_refresh_event
  poll,         \* the step of the loop and the network it has read
  resetting,    \* _reset_in_progress
  confirm,      \* _reset_remote_confirm_event
  reset,        \* the step of a reset and the items it still has to erase
  owned,        \* the items: there, gone, or there after a reset has failed to erase them
  announced,    \* history: a refresh was asked for after the last reset had cleared the row
  resets

resetVars == <<network, online, row, published, refresh, poll, resetting, confirm, reset, owned,
               announced, resets>>
linkVars == <<network, online>>
loopVars == <<published, poll>>

RowValue == Network \cup {Nowhere}
PollRest == [pc |-> "wait", read |-> Nowhere]
NoReset  == [pc |-> "idle", rest |-> {}]
AtStep(r, label)   == reset[r].pc = label
GoToStep(r, label) == reset' = [reset EXCEPT ![r].pc = label]
--------------------------------------------------------------------------------
ResetInit ==
  /\ network \in RowValue /\ online = FALSE
  /\ row \in RowValue
  /\ published = Unknown /\ refresh = TRUE /\ poll = PollRest
  /\ resetting = FALSE /\ confirm = FALSE
  /\ reset = [r \in Resetter |-> NoReset]
  /\ owned = [x \in Item |-> "there"] /\ announced = TRUE
  /\ resets = 0

\* publish_device_state_update: a patch without a session is dropped.
Publish(new) == row' = new \/ (~online /\ UNCHANGED row)
--------------------------------------------------------------------------------
\* The network and the bridge.  A device that has lost its network may be shown as connected
\* until the bridge notices.
JoinsNetwork(n) ==
  /\ network = Nowhere /\ network' = n
  /\ UNCHANGED <<online, row, loopVars, refresh, resetting, confirm, reset, owned, announced, resets>>

LosesNetwork ==
  /\ network # Nowhere /\ network' = Nowhere
  /\ UNCHANGED <<online, row, loopVars, refresh, resetting, confirm, reset, owned, announced, resets>>

\* _set_connected with _on_remote_connectivity_changed.
Connects ==
  /\ ~online /\ network # Nowhere
  /\ online' = TRUE
  /\ refresh' = (refresh \/ ~resetting) /\ announced' = (announced \/ ~resetting)
  /\ UNCHANGED <<network, row, loopVars, resetting, confirm, reset, owned, resets>>

Disconnects ==
  /\ online /\ online' = FALSE
  /\ UNCHANGED <<network, row, loopVars, refresh, resetting, confirm, reset, owned, announced, resets>>

\* check_connection_loop, when it has replaced the session.
AsksRefresh ==
  /\ network # Nowhere
  /\ refresh' = TRUE /\ announced' = TRUE
  /\ UNCHANGED <<linkVars, row, loopVars, resetting, confirm, reset, owned, resets>>
--------------------------------------------------------------------------------
\* network_state_remote_loop, one iteration: the refresh and the check, the network is read,
\* and published when it is another one.
\* Bug: the refresh is taken and what was published last is kept.
LoopRefreshed_KeepsCache ==
  /\ refresh' = FALSE
  /\ UNCHANGED published

LoopRefreshed ==
  /\ published' = IF refresh THEN Unknown ELSE published
  /\ refresh' = FALSE

LoopStarts ==
  /\ poll.pc = "wait"
  /\ LoopRefreshed
  /\ poll' = [poll EXCEPT !.pc = IF ~resetting /\ online THEN "read" ELSE "wait"]
  /\ UNCHANGED <<linkVars, row, resetting, confirm, reset, owned, announced, resets>>

LoopReads ==
  /\ poll.pc = "read"
  /\ poll' = IF network = published THEN PollRest ELSE [pc |-> "publish", read |-> network]
  /\ UNCHANGED <<linkVars, row, published, refresh, resetting, confirm, reset, owned, announced, resets>>

LoopPublishes ==
  /\ poll.pc = "publish"
  /\ Publish(poll.read)
  /\ published' = poll.read
  /\ poll' = PollRest
  /\ UNCHANGED <<linkVars, refresh, resetting, confirm, reset, owned, announced, resets>>

LoopStep == LoopStarts \/ LoopReads \/ LoopPublishes
--------------------------------------------------------------------------------
\* _start_device_reset and the check of the sequence; the flag is set later.
StartReset(r) ==
  /\ AtStep(r, "idle") /\ ~resetting
  /\ resets < MaxReset /\ resets' = resets + 1
  /\ GoToStep(r, "set")
  /\ UNCHANGED <<linkVars, row, loopVars, refresh, resetting, confirm, owned, announced>>

SetFlag(r) ==
  /\ AtStep(r, "set")
  /\ resetting' = TRUE
  /\ GoToStep(r, "clear")
  /\ UNCHANGED <<linkVars, row, loopVars, refresh, confirm, owned, announced, resets>>

ClearEvents(r) ==
  /\ AtStep(r, "clear")
  /\ refresh' = FALSE /\ confirm' = FALSE /\ announced' = FALSE
  /\ GoToStep(r, "request")
  /\ UNCHANGED <<linkVars, row, loopVars, resetting, owned, resets>>

\* request_device_reset_state.
RequestReset(r) ==
  /\ AtStep(r, "request")
  /\ Publish(Nowhere) /\ announced' = FALSE
  /\ GoToStep(r, "wait")
  /\ UNCHANGED <<linkVars, loopVars, refresh, resetting, confirm, owned, resets>>

\* A snapshot confirms a reset when the row is cleared, unless it lists games: the empty
\* list of the request does not get through the filter of patches.
Confirming == row = Nowhere

\* The server thread applies such a snapshot while a reset runs.
SnapshotConfirms ==
  /\ resetting /\ Confirming
  /\ confirm' = TRUE
  /\ UNCHANGED <<linkVars, row, loopVars, refresh, resetting, reset, owned, announced, resets>>

\* The wait ends, confirmed or after 10 seconds.
Confirmed(r) ==
  /\ AtStep(r, "wait") /\ confirm
  /\ GoToStep(r, "forget")
  /\ UNCHANGED <<linkVars, row, loopVars, refresh, resetting, confirm, owned, announced, resets>>

TimesOut(r) ==
  /\ AtStep(r, "wait") /\ ~confirm
  /\ GoToStep(r, "forget")
  /\ UNCHANGED <<linkVars, row, loopVars, refresh, resetting, confirm, owned, announced, resets>>

ForgetWifi(r) ==
  /\ AtStep(r, "forget")
  /\ network' = Nowhere
  /\ reset' = [reset EXCEPT ![r] = [pc |-> "erase", rest |-> Item]]
  /\ UNCHANGED <<online, row, loopVars, refresh, resetting, confirm, owned, announced, resets>>

\* Each item is erased, or the error is logged.
EraseItem(r, x) ==
  /\ AtStep(r, "erase") /\ x \in reset[r].rest
  /\ \E now \in {"gone", "failed"} : owned' = [owned EXCEPT ![x] = now]
  /\ reset' = [reset EXCEPT ![r].rest = @ \ {x}]
  /\ UNCHANGED <<linkVars, row, loopVars, refresh, resetting, confirm, announced, resets>>

EndReset(r) ==
  /\ AtStep(r, "erase") /\ reset[r].rest = {}
  /\ resetting' = FALSE
  /\ reset' = [reset EXCEPT ![r] = NoReset]
  /\ UNCHANGED <<linkVars, row, loopVars, refresh, confirm, owned, announced, resets>>

\* Widgets start, an app is installed, somebody logs in.
OwnerAdds(x) ==
  /\ owned[x] = "gone" /\ owned' = [owned EXCEPT ![x] = "there"]
  /\ UNCHANGED <<linkVars, row, loopVars, refresh, resetting, confirm, reset, announced, resets>>

ResetStep(r) ==
  \/ SetFlag(r) \/ ClearEvents(r) \/ RequestReset(r) \/ Confirmed(r) \/ TimesOut(r)
  \/ ForgetWifi(r) \/ EndReset(r)
  \/ \E x \in Item : EraseItem(r, x)
--------------------------------------------------------------------------------
ResetNext ==
  \/ \E n \in Network : JoinsNetwork(n)
  \/ LosesNetwork \/ Connects \/ Disconnects \/ AsksRefresh
  \/ LoopStep
  \/ SnapshotConfirms
  \/ \E r \in Resetter : StartReset(r) \/ ResetStep(r)
  \/ \E x \in Item : OwnerAdds(x)

ResetSpec == ResetInit /\ [][ResetNext]_resetVars

\* The loop and the sequences go on; the bridge, the network and the owner do as they like.
ResetFairness == WF_resetVars(LoopStep) /\ \A r \in Resetter : WF_resetVars(ResetStep(r))
--------------------------------------------------------------------------------
\* What the loop takes for the network of the row is what the row has, or it will forget
\* it: a patch of another network is never held back, whatever patches were dropped and
\* however resets and reconnections came in between, once a refresh was asked for after
\* the last reset.
CacheIsTrue ==
  announced /\ (\A r \in Resetter : ~AtStep(r, "clear")) =>
    /\ resetting => refresh \/ (published = Unknown /\ poll.pc = "wait")
    /\ online => refresh \/ published \in {Unknown, row}

ResetTypeOK ==
  /\ network \in RowValue /\ online \in BOOLEAN
  /\ row \in RowValue
  /\ published \in RowValue \cup {Unknown}
  /\ poll \in [pc : {"wait", "read", "publish"}, read : RowValue]
  /\ refresh \in BOOLEAN /\ resetting \in BOOLEAN /\ confirm \in BOOLEAN
  /\ reset \in [Resetter ->
       [pc : {"idle", "set", "clear", "request", "wait", "forget", "erase"},
        rest : SUBSET Item]]
  /\ owned \in [Item -> {"there", "gone", "failed"}]
  /\ announced \in BOOLEAN
  /\ resets \in 0..MaxReset
  /\ CacheIsTrue

\* A reset proceeds to its end whether or not the row confirms it ("always proceed with local
\* Wi-Fi removal", runtime/reset_workflow.py:20), and another may overlap it.  And whatever
\* resets, reconnections and dropped patches came before, a device that stays
\* online is shown in its network, once a reconnection or the check of the connection was
\* noticed after the last reset (network_state_remote_loop of main.py).
NetworkShown ==
  /\ \A r \in Resetter : []<>AtStep(r, "idle")
  /\ \A n \in Network : <>[](online /\ network = n /\ announced) => <>[](row = n)
================================================================================
