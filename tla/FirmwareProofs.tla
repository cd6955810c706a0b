----------------------------- MODULE FirmwareProofs ----------------------------
(***************************************************************************)
(* Proofs about Firmware for every number of releases, requests and        *)
(* reboots.                                                                *)
(***************************************************************************)
EXTENDS Firmware, TLAPS

\* As long as updates have not overlapped, at most one of them, or the repair, is at work.
OneAtWork ==
  ~overlapped =>
    /\ repair = "run" => \A u \in Updater : updater[u].pc = "idle"
    /\ \A u, v \in Updater : updater[u].pc # "idle" /\ updater[v].pc # "idle" => u = v

\* A device that is not as its commit says has the marker, or is in update.sh for the
\* first time; a rollback and the repair have the marker all along.
PartialIsMarked ==
  ~overlapped /\ ~cut =>
    /\ installed # head => marker \/ \E u \in Updater : updater[u].pc = "run"
    /\ \A u \in Updater : updater[u].pc = "rerun" => marker
    /\ repair = "run" => marker

\* What is inductive.
FirmwareInv ==
  FirmwareTypeOK /\ OneAtWork /\ UpgradeShown /\ PartialIsMarked /\ BannerHasUpdate

LEMMA FirmwareInvInit == FirmwareInit => FirmwareInv
<1> SUFFICES ASSUME FirmwareInit PROVE FirmwareInv
  OBVIOUS
<1> USE FirmwareAssumption DEF FirmwareInit, NoUpdate, NoBanner, InMain
<1>1. FirmwareTypeOK
  <2>1. fevents \in 0..MaxFirmwareEvent
    OBVIOUS
  <2>2. updater \in [Updater -> [pc : Labels, saved : Commit, told : BOOLEAN]]
    BY DEF Commit, Labels
  <2>3. QED
    BY <2>1, <2>2 DEF FirmwareTypeOK, Commit
<1>2. OneAtWork /\ UpgradeShown /\ PartialIsMarked /\ BannerHasUpdate
  BY DEF OneAtWork, UpgradeShown, PartialIsMarked, BannerHasUpdate, Working
<1>3. QED
  BY <1>1, <1>2 DEF FirmwareInv

\* The steps of an update, of the repair, and those that leave both alone.
Elsewhere ==
  Release \/ Hinder \/ AppAsks \/ ClearArrives \/ OtherSnackbar \/ SnackbarEnds

LEMMA FirmwareCases ==
  ASSUME [FirmwareNext]_firmwareVars
  PROVE  \/ UNCHANGED firmwareVars \/ Elsewhere \/ Snapshot2 \/ Reboot \/ KernelReboot \/ RepairStep
         \/ \E u \in Updater : BeginOther(u) \/ UpdateStep(u)
BY DEF FirmwareNext, Elsewhere

\* Updates and events keep their types.
Progress == [pc : Labels, saved : Commit, told : BOOLEAN]

LEMMA EventTyped ==
  ASSUME fevents \in 0..MaxFirmwareEvent, FirmwareEvent
  PROVE  fevents' \in 0..MaxFirmwareEvent
BY FirmwareAssumption DEF FirmwareEvent

LEMMA UpdaterTyped ==
  ASSUME updater \in [Updater -> Progress], head \in Commit
  PROVE  /\ \A u \in Updater : Begin(u) => updater' \in [Updater -> Progress]
         /\ \A u \in Updater : Idles(u) => updater' \in [Updater -> Progress]
         /\ \A u \in Updater : \A pc \in {"run", "terminal", "restart", "rerun"} :
              Goto(u, pc) => updater' \in [Updater -> Progress]
         /\ \A u \in Updater : TerminalActions(u) => updater' \in [Updater -> Progress]
         /\ \A dying \in SUBSET Updater : Restarts(dying) => updater' \in [Updater -> Progress]
<1> USE DEF Progress, NoUpdate, Labels
<1>1. NoUpdate \in Progress /\ [pc |-> "fetch", saved |-> head, told |-> FALSE] \in Progress
  BY DEF Commit
<1>2. \A u \in Updater : \A pc \in {"run", "terminal", "restart", "rerun"} :
        [updater[u] EXCEPT !.pc = pc] \in Progress
  OBVIOUS
<1>8. \A u \in Updater : [updater[u] EXCEPT !.pc = "restart", !.told = TRUE] \in Progress
  OBVIOUS
<1> HIDE DEF Progress, NoUpdate
<1>3. \A u \in Updater : Begin(u) => updater' \in [Updater -> Progress]
  BY <1>1 DEF Begin
<1>4. \A u \in Updater : Idles(u) => updater' \in [Updater -> Progress]
  BY <1>1 DEF Idles
<1>5. \A u \in Updater : \A pc \in {"run", "terminal", "restart", "rerun"} :
        Goto(u, pc) => updater' \in [Updater -> Progress]
  BY <1>2 DEF Goto
<1>6. \A dying \in SUBSET Updater : Restarts(dying) => updater' \in [Updater -> Progress]
  BY <1>1 DEF Restarts
<1>9. \A u \in Updater : TerminalActions(u) => updater' \in [Updater -> Progress]
  BY <1>8 DEF TerminalActions
<1>7. QED
  BY <1>3, <1>4, <1>5, <1>6, <1>9

\* The variables that are no functions and no counters.
Plain ==
  /\ head \in Commit /\ released \in Commit /\ installed \in Commit \cup {"partial"}
  /\ upgrading \in BOOLEAN /\ marker \in BOOLEAN
  /\ repair \in {"idle", "due", "run"} /\ banner \in InMain \cup {NoBanner, OtherText}
  /\ wanted \in BOOLEAN /\ clearing \in BOOLEAN /\ fresh \in BOOLEAN /\ cut \in BOOLEAN
  /\ overlapped \in BOOLEAN /\ hindered \in BOOLEAN

LEMMA TypeParts ==
  FirmwareTypeOK <=> Plain /\ updater \in [Updater -> Progress] /\ fevents \in 0..MaxFirmwareEvent
BY DEF FirmwareTypeOK, Plain, Progress

LEMMA PlainStep ==
  ASSUME Plain, updater \in [Updater -> Progress], [FirmwareNext]_firmwareVars
  PROVE  Plain'
<1> USE DEF Plain
<1>0. \A u \in Updater : updater[u].saved \in Commit
  BY DEF Progress
<1> USE DEF boot, row2
<1>1. CASE UNCHANGED firmwareVars
  BY <1>1 DEF firmwareVars
<1>2. CASE Elsewhere
  <2>1. CASE Release
    BY <2>1 DEF Release, Commit
  <2>2. CASE AppAsks \/ ClearArrives \/ Hinder
    BY <2>2 DEF AppAsks, ClearArrives, Hinder
  <2>3. CASE OtherSnackbar \/ SnackbarEnds
    BY <2>3 DEF OtherSnackbar, SnackbarEnds
  <2>4. QED
    BY <1>2, <2>1, <2>2, <2>3 DEF Elsewhere
<1>3. CASE Snapshot2
  <2>1. overlapped' \in BOOLEAN
    BY <1>3 DEF Snapshot2, Begin, Overlaps
  <2>2. banner' \in InMain \cup {NoBanner, OtherText} /\ upgrading' \in BOOLEAN
    BY <1>3 DEF Snapshot2, Begin
  <2>3. QED
    BY <1>3, <2>1, <2>2 DEF Snapshot2
<1>4. CASE Reboot \/ KernelReboot
  <2>1. installed' \in Commit \cup {"partial"} /\ marker' \in BOOLEAN
    BY <1>4 DEF Reboot, KernelReboot
  <2>2. /\ head' = head /\ released' = released /\ wanted' = wanted /\ overlapped' = overlapped
        /\ hindered' = hindered /\ upgrading' = FALSE /\ cut' \in BOOLEAN
        /\ repair' \in {"idle", "due"}
    BY <1>4 DEF Reboot, KernelReboot, GoesDown
  <2>3. banner' = NoBanner /\ fresh' = TRUE /\ clearing' \in BOOLEAN
    BY <1>4 DEF Reboot, KernelReboot, GoesDown, Restarts
  <2>4. QED
    BY <2>1, <2>2, <2>3
<1>5. CASE RepairStep
  <2>1. CASE RepairStarts
    BY <2>1 DEF RepairStarts, Overlaps
  <2>2. CASE RepairEnds \/ RepairFails
    BY <2>2 DEF RepairEnds, RepairFails, Restarts
  <2>3. QED
    BY <1>5, <2>1, <2>2 DEF RepairStep
<1>6. ASSUME NEW u \in Updater, BeginOther(u) PROVE Plain'
  <2>1. overlapped' \in BOOLEAN
    BY <1>6 DEF BeginOther, Begin, Overlaps
  <2>2. banner' \in InMain \cup {NoBanner, OtherText} /\ upgrading' \in BOOLEAN
    BY <1>6 DEF BeginOther, Begin
  <2>3. QED
    BY <1>6, <2>1, <2>2 DEF BeginOther
<1>7. ASSUME NEW u \in Updater, UpdateStep(u) PROVE Plain'
  <2> DEFINE Banners == banner' \in InMain \cup {NoBanner, OtherText}
  <2>0. /\ \A error \in BOOLEAN : Answered(u, error) => Banners
        /\ \A dying \in SUBSET Updater :
             Restarts(dying) => Banners /\ clearing' \in BOOLEAN /\ fresh' \in BOOLEAN
        /\ banner' = banner => Banners
        /\ ClearRequest(u) => clearing' \in BOOLEAN /\ wanted' = wanted /\ fresh' = fresh
    BY DEF Answered, Restarts, ClearRequest
  <2>6. InMain \cup {"mcp"} \in SUBSET Updater /\ InMain \in SUBSET Updater
          /\ InMain \cup {u, "mcp"} \in SUBSET Updater
    BY DEF InMain, Updater
  <2> HIDE DEF Banners
  <2>1. CASE UpToDate(u) \/ RollbackFails(u)
    BY <2>0, <2>1 DEF UpToDate, RollbackFails, Banners
  <2>7. CASE Raises(u) \/ HandlerRaises(u)
    BY <2>0, <2>7 DEF Raises, HandlerRaises, Banners
  <2>2. CASE Fetched(u) \/ Fails(u) \/ TerminalActions(u)
    BY <1>0, <2>0, <2>2 DEF Fetched, Fails, TerminalActions
  <2>3. CASE ScriptEnds(u) \/ RestartServices(u)
    BY <2>0, <2>3, <2>6 DEF ScriptEnds, RestartServices, Banners
  <2>4. CASE RollbackEnds(u)
    BY <2>0, <2>4, <2>6 DEF RollbackEnds, Banners
  <2>5. QED
    BY <1>7, <2>1, <2>2, <2>3, <2>4, <2>7 DEF UpdateStep
<1>8. QED
  BY <1>1, <1>2, <1>3, <1>4, <1>5, <1>6, <1>7, FirmwareCases

LEMMA FirmwareTypeStep ==
  FirmwareTypeOK /\ [FirmwareNext]_firmwareVars => FirmwareTypeOK'
<1> SUFFICES ASSUME FirmwareTypeOK, [FirmwareNext]_firmwareVars PROVE FirmwareTypeOK'
  OBVIOUS
<1>1. Plain /\ updater \in [Updater -> Progress] /\ fevents \in 0..MaxFirmwareEvent
  BY TypeParts
<1>2. Plain'
  BY <1>1, PlainStep
<1>3. fevents' \in 0..MaxFirmwareEvent
  <2>1. fevents' = fevents \/ FirmwareEvent
    BY FirmwareCases
    DEF firmwareVars, Elsewhere, Release, Hinder, AppAsks, ClearArrives, OtherSnackbar,
        SnackbarEnds, Snapshot2, Reboot, KernelReboot, RepairStep, RepairStarts, RepairEnds, RepairFails, BeginOther,
        UpdateStep, UpToDate, Fetched, Raises, HandlerRaises, Fails, ScriptEnds, TerminalActions,
        RestartServices, RollbackEnds, RollbackFails
  <2>2. QED
    BY <1>1, <2>1, EventTyped
<1>4. updater' \in [Updater -> Progress]
  <2>0. head \in Commit
    BY <1>1 DEF Plain
  <2>1. CASE UNCHANGED firmwareVars \/ Elsewhere
    BY <1>1, <2>1
    DEF firmwareVars, Elsewhere, Release, Hinder, AppAsks, ClearArrives, OtherSnackbar, SnackbarEnds
  <2>2. CASE Snapshot2
    BY <1>1, <2>0, <2>2, UpdaterTyped DEF Snapshot2, Updater
  <2>3. CASE Reboot \/ KernelReboot \/ RepairStep
    <3>1. InMain \cup {"mcp"} \in SUBSET Updater /\ Updater \in SUBSET Updater
      BY DEF InMain, Updater
    <3>2. updater' = updater \/ \E dying \in SUBSET Updater : Restarts(dying)
      BY <2>3, <3>1
      DEF Reboot, KernelReboot, GoesDown, RepairStep, RepairStarts, RepairEnds, RepairFails
    <3>3. QED
      BY <1>1, <2>0, <3>2, UpdaterTyped
  <2>4. ASSUME NEW u \in Updater, BeginOther(u) PROVE updater' \in [Updater -> Progress]
    BY <1>1, <2>0, <2>4, UpdaterTyped DEF BeginOther
  <2>5. ASSUME NEW u \in Updater, UpdateStep(u) PROVE updater' \in [Updater -> Progress]
    <3>1. InMain \cup {"mcp"} \in SUBSET Updater /\ InMain \in SUBSET Updater
            /\ InMain \cup {u, "mcp"} \in SUBSET Updater
      BY DEF InMain, Updater
    <3>2. \/ \E pc \in {"run", "terminal", "restart", "rerun"} : Goto(u, pc)
          \/ TerminalActions(u)
          \/ Idles(u)
          \/ \E dying \in SUBSET Updater : Restarts(dying)
      BY <2>5, <3>1
      DEF UpdateStep, UpToDate, Fetched, Raises, HandlerRaises, Fails, ScriptEnds,
          RestartServices, RollbackEnds, RollbackFails
    <3>3. QED
      BY <1>1, <2>0, <3>2, UpdaterTyped
  <2>6. QED
    BY <2>1, <2>2, <2>3, <2>4, <2>5, FirmwareCases
<1>5. QED
  BY <1>2, <1>3, <1>4 DEF FirmwareTypeOK, Plain, Progress

\* One update goes from one label to another.
LEMMA Moves ==
  ASSUME FirmwareTypeOK, NEW u \in Updater
  PROVE  /\ \A pc \in {"run", "terminal", "restart", "rerun"} : Goto(u, pc) =>
              /\ updater'[u].pc = pc
              /\ \A v \in Updater \ {u} : updater'[v] = updater[v]
         /\ TerminalActions(u) => /\ updater'[u].pc = "restart"
                                  /\ \A v \in Updater \ {u} : updater'[v] = updater[v]
         /\ Idles(u) => /\ updater'[u].pc = "idle"
                        /\ \A v \in Updater \ {u} : updater'[v] = updater[v]
BY DEF Goto, TerminalActions, Idles, NoUpdate, FirmwareTypeOK

\* A restart ends updates and starts none.
LEMMA Restarting ==
  ASSUME FirmwareTypeOK, NEW dying \in SUBSET Updater, Restarts(dying)
  PROVE  /\ banner' = NoBanner
         /\ \A v \in Updater : /\ v \in dying => updater'[v].pc = "idle"
                               /\ v \notin dying => updater'[v] = updater[v]
BY DEF Restarts, NoUpdate, FirmwareTypeOK

\* A device that has gone down comes up with no update and no repair at work.
LEMMA GoingDown ==
  ASSUME FirmwareTypeOK, Reboot \/ KernelReboot
  PROVE  /\ banner' = NoBanner /\ repair' # "run" /\ head' = head
         /\ (overlapped' <=> overlapped) /\ (cut => cut')
         /\ \A v \in Updater : updater'[v].pc = "idle"
<1>1. \E amid \in SUBSET Updater : GoesDown(amid)
  BY DEF Reboot, KernelReboot
<1>2. QED
  <2>1. Restarts(Updater) /\ Updater \in SUBSET Updater
    BY <1>1 DEF GoesDown
  <2>2. banner' = NoBanner /\ \A v \in Updater : updater'[v].pc = "idle"
    BY <2>1, Restarting
  <2>3. head' = head /\ repair' # "run"
    BY <1>1 DEF GoesDown
  <2>4. (overlapped' <=> overlapped) /\ (cut => cut')
    <3>1. PICK amid \in SUBSET Updater : GoesDown(amid)
      BY <1>1
    <3>2. overlapped' = overlapped /\ cut' = (cut \/ \E u \in amid : Working(u))
      BY <3>1 DEF GoesDown
    <3>3. QED
      BY <3>2, Zenon
  <2>5. QED
    BY <2>2, <2>3, <2>4

\* The beginning of an update that does not overlap another one is alone.
LEMMA Beginning ==
  ASSUME FirmwareTypeOK, NEW u \in Updater, Begin(u)
  PROVE  /\ updater'[u].pc = "fetch" /\ upgrading' = TRUE
         /\ \A v \in Updater \ {u} : updater'[v] = updater[v]
         /\ banner' = u \/ banner' = banner
         /\ ~overlapped' => /\ ~overlapped /\ repair # "run"
                            /\ \A v \in Updater : updater[v].pc = "idle"
BY DEF Begin, Overlaps, AtWork, FirmwareTypeOK

LEMMA BannerStep ==
  FirmwareTypeOK /\ BannerHasUpdate /\ [FirmwareNext]_firmwareVars => BannerHasUpdate'
<1> SUFFICES ASSUME FirmwareTypeOK, BannerHasUpdate, [FirmwareNext]_firmwareVars
             PROVE  BannerHasUpdate'
  OBVIOUS
<1> USE DEF BannerHasUpdate, InMain, NoBanner, OtherText
<1>0. InMain \subseteq Updater
  BY DEF Updater
<1>1. CASE UNCHANGED firmwareVars
  BY <1>1 DEF firmwareVars
<1>2. CASE Elsewhere
  BY <1>2 DEF Elsewhere, Release, Hinder, AppAsks, ClearArrives, OtherSnackbar, SnackbarEnds
<1>3. CASE Snapshot2
  <2>1. "remote" \in Updater
    BY DEF Updater
  <2>2. CASE wanted
    <3>1. Begin("remote")
      BY <1>3, <2>2 DEF Snapshot2
    <3>2. /\ updater'["remote"].pc = "fetch"
          /\ \A v \in Updater \ {"remote"} : updater'[v] = updater[v]
          /\ banner' = "remote" \/ banner' = banner
      BY <2>1, <3>1, Beginning
    <3>3. QED
      BY <1>0, <3>2
  <2>3. CASE ~wanted
    BY <1>3, <2>3 DEF Snapshot2
  <2>4. QED
    BY <2>2, <2>3
<1>4. CASE Reboot \/ KernelReboot
  BY <1>4, GoingDown
<1>5. CASE RepairStep
  BY <1>5 DEF RepairStep, RepairStarts, RepairEnds, RepairFails, Restarts
<1>6. ASSUME NEW u \in Updater, BeginOther(u) PROVE BannerHasUpdate'
  BY <1>0, <1>6, Beginning DEF BeginOther
<1>7. ASSUME NEW u \in Updater, UpdateStep(u) PROVE BannerHasUpdate'
  <2>1. CASE UpToDate(u) \/ Raises(u) \/ HandlerRaises(u) \/ RollbackFails(u)
    BY <1>0, <2>1, Moves DEF UpToDate, Raises, HandlerRaises, RollbackFails, Answered
  <2>2. CASE Fetched(u) \/ Fails(u) \/ TerminalActions(u)
    <3>1. /\ updater'[u].pc # "idle"
          /\ \A v \in Updater \ {u} : updater'[v] = updater[v]
      BY <2>2, Moves DEF Fetched, Fails, TerminalActions
    <3>2. banner' = banner
      BY <2>2 DEF Fetched, Fails, TerminalActions
    <3>3. QED
      BY <1>0, <3>1, <3>2
  <2>3. CASE ScriptEnds(u)
    <3>1. CASE u = "remote"
      <4>1. /\ updater'[u].pc # "idle"
            /\ \A v \in Updater \ {u} : updater'[v] = updater[v]
            /\ banner' = banner
        BY <2>3, <3>1, Moves DEF ScriptEnds
      <4>2. QED
        BY <1>0, <4>1
    <3>2. CASE u # "remote"
      BY <2>3, <3>2 DEF ScriptEnds, Restarts
    <3>3. QED
      BY <3>1, <3>2
  <2>4. CASE RestartServices(u)
    BY <2>4 DEF RestartServices, Restarts
  <2>5. CASE RollbackEnds(u)
    <3>1. CASE u = "mcp"
      BY <2>5, <3>1 DEF RollbackEnds, Restarts
    <3>2. CASE u # "mcp"
      BY <1>0, <2>5, <3>2, Moves DEF RollbackEnds, Answered
    <3>3. QED
      BY <3>1, <3>2
  <2>6. QED
    BY <1>7, <2>1, <2>2, <2>3, <2>4, <2>5 DEF UpdateStep
<1>8. QED
  BY <1>1, <1>2, <1>3, <1>4, <1>5, <1>6, <1>7, FirmwareCases

\* What all steps of an update have in common.
LEMMA UpdateStepAlike ==
  ASSUME NEW u \in Updater, UpdateStep(u)
  PROVE  /\ updater[u].pc # "idle" /\ repair' = repair /\ (overlapped' <=> overlapped)
         /\ (cut => cut')
<1> USE DEF boot
<1>1. CASE UpToDate(u)
  BY <1>1 DEF UpToDate
<1>2. CASE Fetched(u)
  BY <1>2 DEF Fetched
<1>3. CASE Raises(u)
  BY <1>3, Zenon DEF Raises
<1>11. CASE HandlerRaises(u)
  BY <1>11 DEF HandlerRaises
<1>4. CASE Fails(u)
  BY <1>4 DEF Fails
<1>5. CASE ScriptEnds(u)
  BY <1>5 DEF ScriptEnds
<1>6. CASE TerminalActions(u)
  BY <1>6 DEF TerminalActions
<1>7. CASE RestartServices(u)
  BY <1>7 DEF RestartServices
<1>8. CASE RollbackEnds(u)
  BY <1>8 DEF RollbackEnds
<1>9. CASE RollbackFails(u)
  BY <1>9 DEF RollbackFails
<1>10. QED
  BY <1>1, <1>2, <1>3, <1>4, <1>5, <1>6, <1>7, <1>8, <1>9, <1>11 DEF UpdateStep

\* Both invariants below say something as long as updates have not overlapped: then a
\* thread that begins finds nobody at work, and one that goes on is alone.
LEMMA OneAtWorkStep ==
  FirmwareTypeOK /\ OneAtWork /\ [FirmwareNext]_firmwareVars => OneAtWork'
<1> SUFFICES ASSUME FirmwareTypeOK, OneAtWork, [FirmwareNext]_firmwareVars, ~overlapped'
             PROVE  OneAtWork'
  BY DEF OneAtWork
<1> USE DEF OneAtWork
<1>1. CASE UNCHANGED firmwareVars \/ Elsewhere
  BY <1>1
  DEF firmwareVars, Elsewhere, Release, Hinder, AppAsks, ClearArrives, OtherSnackbar, SnackbarEnds, boot
<1>2. CASE Snapshot2
  <2>1. CASE wanted
    <3>1. "remote" \in Updater /\ Begin("remote") /\ repair' = repair
      BY <1>2, <2>1 DEF Snapshot2, Updater, boot
    <3>2. /\ repair # "run"
          /\ \A v \in Updater \ {"remote"} : updater'[v].pc = "idle"
      BY <3>1, Beginning
    <3>3. QED
      BY <3>1, <3>2
  <2>2. CASE ~wanted
    BY <1>2, <2>2 DEF Snapshot2, boot
  <2>3. QED
    BY <2>1, <2>2
<1>3. CASE Reboot \/ KernelReboot
  BY <1>3, GoingDown
<1>4. CASE RepairStep
  <2>1. CASE RepairStarts
    BY <2>1 DEF RepairStarts, Overlaps, AtWork
  <2>2. CASE RepairEnds
    <3>1. InMain \cup {"mcp"} \in SUBSET Updater
      BY DEF InMain, Updater
    <3>2. QED
      BY <2>2, <3>1, Restarting DEF RepairEnds
  <2>3. CASE RepairFails
    BY <2>3 DEF RepairFails
  <2>4. QED
    BY <1>4, <2>1, <2>2, <2>3 DEF RepairStep
<1>5. ASSUME NEW u \in Updater, BeginOther(u) PROVE OneAtWork'
  <2>1. Begin(u) /\ repair' = repair
    BY <1>5 DEF BeginOther, boot
  <2>2. repair # "run" /\ \A v \in Updater \ {u} : updater'[v].pc = "idle"
    BY <2>1, Beginning
  <2>3. QED
    BY <2>1, <2>2
<1>6. ASSUME NEW u \in Updater, UpdateStep(u) PROVE OneAtWork'
  <2>1. updater[u].pc # "idle" /\ repair' = repair /\ ~overlapped
    BY <1>6, UpdateStepAlike
  <2>2. \A v \in Updater \ {u} : updater[v].pc = "idle"
    BY <2>1
  <2>3. \A v \in Updater \ {u} : updater'[v].pc = "idle"
    <3>1. InMain \cup {"mcp"} \in SUBSET Updater /\ InMain \in SUBSET Updater
            /\ InMain \cup {u, "mcp"} \in SUBSET Updater
      BY DEF InMain, Updater
    <3>2. \/ \E pc \in {"run", "terminal", "restart", "rerun"} : Goto(u, pc)
          \/ TerminalActions(u)
          \/ Idles(u)
          \/ \E dying \in SUBSET Updater : Restarts(dying)
      BY <1>6, <3>1
      DEF UpdateStep, UpToDate, Fetched, Raises, HandlerRaises, Fails, ScriptEnds,
          RestartServices, RollbackEnds, RollbackFails
    <3>3. QED
      BY <2>2, <3>2, Moves, Restarting
  <2>4. QED
    BY <2>1, <2>3
<1>7. QED
  BY <1>1, <1>2, <1>3, <1>4, <1>5, <1>6, FirmwareCases

\* What an update that is alone tells the others.
LEMMA UpgradeShownStep ==
  FirmwareTypeOK /\ OneAtWork /\ OneAtWork' /\ UpgradeShown /\ [FirmwareNext]_firmwareVars
    => UpgradeShown'
<1> SUFFICES ASSUME FirmwareTypeOK, OneAtWork, OneAtWork', UpgradeShown,
                    [FirmwareNext]_firmwareVars, ~overlapped'
             PROVE  UpgradeShown'
  BY DEF UpgradeShown
<1> USE DEF OneAtWork, UpgradeShown, Working
<1>1. CASE UNCHANGED firmwareVars \/ Elsewhere
  BY <1>1
  DEF firmwareVars, Elsewhere, Release, Hinder, AppAsks, ClearArrives, OtherSnackbar, SnackbarEnds, boot
<1>2. CASE Snapshot2
  <2>1. CASE wanted
    <3>1. Begin("remote")
      BY <1>2, <2>1 DEF Snapshot2
    <3>2. upgrading'
      BY <3>1 DEF Begin
    <3>3. QED
      BY <3>2
  <2>2. CASE ~wanted
    BY <1>2, <2>2 DEF Snapshot2, boot
  <2>3. QED
    BY <2>1, <2>2
<1>3. CASE Reboot \/ KernelReboot
  BY <1>3, GoingDown
<1>4. CASE RepairStep
  <2>1. CASE RepairStarts
    BY <2>1 DEF RepairStarts
  <2>2. CASE RepairEnds
    <3>1. InMain \cup {"mcp"} \in SUBSET Updater
      BY DEF InMain, Updater
    <3>2. QED
      BY <2>2, <3>1, Restarting DEF RepairEnds
  <2>3. CASE RepairFails
    BY <2>3 DEF RepairFails
  <2>4. QED
    BY <1>4, <2>1, <2>2, <2>3 DEF RepairStep
<1>5. ASSUME NEW u \in Updater, BeginOther(u) PROVE UpgradeShown'
  BY <1>5 DEF BeginOther, Begin
<1>6. ASSUME NEW u \in Updater, UpdateStep(u) PROVE UpgradeShown'
  <2>1. CASE UpToDate(u) \/ Raises(u) \/ HandlerRaises(u) \/ RollbackFails(u)
    <3>1. Idles(u)
      BY <2>1 DEF UpToDate, Raises, HandlerRaises, RollbackFails
    <3>0. updater[u].pc # "idle" /\ repair' = repair /\ ~overlapped
      BY <1>6, UpdateStepAlike
    <3>2. \A v \in Updater : updater'[v].pc = "idle"
      BY <3>0, <3>1, Moves
    <3>3. QED
      BY <3>0, <3>2
  <2>2. CASE Fetched(u)
    <3>1. updater[u].pc = "fetch" /\ repair' = repair /\ upgrading' = upgrading /\ ~overlapped
      BY <2>2 DEF Fetched, boot
    <3>2. upgrading
      BY <3>1
    <3>3. QED
      BY <3>1, <3>2
  <2>3. CASE Fails(u)
    BY <2>3 DEF Fails
  <2>4. CASE ScriptEnds(u)
    <3>1. updater[u].pc = "run" /\ repair' = repair /\ ~overlapped
      BY <2>4 DEF ScriptEnds, boot
    <3>2. CASE u = "remote"
      BY <2>4, <3>1, <3>2 DEF ScriptEnds
    <3>3. CASE u # "remote"
      <4>1. PICK dying \in SUBSET Updater : u \in dying /\ Restarts(dying)
        BY <2>4, <3>3 DEF ScriptEnds, InMain, Updater
      <4>2. \A v \in Updater : updater'[v].pc = "idle"
        BY <3>1, <4>1, Restarting
      <4>3. QED
        BY <3>1, <4>2
    <3>4. QED
      BY <3>2, <3>3
  <2>5. CASE TerminalActions(u)
    <3>1. updater[u].pc = "terminal" /\ repair' = repair /\ ~overlapped
      BY <2>5 DEF TerminalActions, boot
    <3>2. \A v \in Updater : updater'[v].pc \in {"idle", "restart"}
      BY <2>5, <3>1, Moves
    <3>3. QED
      BY <3>1, <3>2
  <2>6. CASE RestartServices(u)
    <3>1. updater[u].pc = "restart" /\ repair' = repair /\ ~overlapped
            /\ Restarts(InMain \cup {"mcp"})
      BY <2>6 DEF RestartServices, boot
    <3>2. \A v \in Updater : updater'[v].pc \in {"idle", "restart"}
      BY <3>1, Restarting DEF InMain, Updater
    <3>3. QED
      BY <3>1, <3>2
  <2>7. CASE RollbackEnds(u)
    <3>1. updater[u].pc = "rerun" /\ repair' = repair /\ ~overlapped
      BY <2>7 DEF RollbackEnds, boot
    <3>2. \A v \in Updater \ {u} : updater[v].pc = "idle"
      BY <3>1
    <3>3. CASE u = "mcp"
      <4>1. Restarts(InMain \cup {"mcp"}) /\ u \in InMain \cup {"mcp"}
              /\ InMain \cup {"mcp"} \in SUBSET Updater
        BY <2>7, <3>3 DEF RollbackEnds, InMain, Updater
      <4>2. \A v \in Updater : updater'[v].pc = "idle"
        BY <3>2, <4>1, Restarting
      <4>3. QED
        BY <3>1, <4>2
    <3>4. CASE u # "mcp"
      BY <2>7, <3>1, <3>2, <3>4, Moves DEF RollbackEnds
    <3>5. QED
      BY <3>3, <3>4
  <2>8. QED
    BY <1>6, <2>1, <2>2, <2>3, <2>4, <2>5, <2>6, <2>7 DEF UpdateStep
<1>7. QED
  BY <1>1, <1>2, <1>3, <1>4, <1>5, <1>6, FirmwareCases

\* The marker is there whenever files and packages may be of different commits.
LEMMA PartialStep ==
  FirmwareTypeOK /\ OneAtWork /\ PartialIsMarked /\ [FirmwareNext]_firmwareVars
    => PartialIsMarked'
<1> SUFFICES ASSUME FirmwareTypeOK, OneAtWork, PartialIsMarked, [FirmwareNext]_firmwareVars,
                    ~overlapped', ~cut'
             PROVE  PartialIsMarked'
  BY DEF PartialIsMarked
<1> USE DEF OneAtWork, PartialIsMarked
<1>1. CASE UNCHANGED firmwareVars \/ Elsewhere
  BY <1>1
  DEF firmwareVars, Elsewhere, Release, Hinder, AppAsks, ClearArrives, OtherSnackbar, SnackbarEnds, boot
<1>2. CASE Snapshot2
  <2>1. CASE wanted
    <3>1. /\ "remote" \in Updater /\ Begin("remote") /\ repair' = repair /\ cut' = cut
          /\ head' = head /\ installed' = installed /\ marker' = marker
      BY <1>2, <2>1 DEF Snapshot2, Updater, boot
    <3>2. /\ ~overlapped /\ repair # "run" /\ \A v \in Updater : updater[v].pc = "idle"
          /\ \A v \in Updater : updater'[v].pc # "rerun"
      BY <3>1, Beginning
    <3>3. QED
      BY <3>1, <3>2
  <2>2. CASE ~wanted
    BY <1>2, <2>2 DEF Snapshot2, boot
  <2>3. QED
    BY <2>1, <2>2
<1>3. CASE Reboot \/ KernelReboot
  <2>1. /\ ~cut /\ ~overlapped /\ head' = head /\ repair' # "run"
        /\ \A v \in Updater : updater'[v].pc = "idle"
    BY <1>3, GoingDown
  <2>2. \/ installed' = head
        \/ /\ installed' = installed /\ marker' = marker
           /\ \A v \in Updater : ~Working(v)
    BY <1>3 DEF Reboot, KernelReboot, GoesDown
  <2>3. QED
    BY <2>1, <2>2 DEF Working
<1>4. CASE RepairStep
  <2>1. CASE RepairStarts
    BY <2>1 DEF RepairStarts, Overlaps, AtWork
  <2>2. CASE RepairEnds
    <3>1. InMain \cup {"mcp"} \in SUBSET Updater
      BY DEF InMain, Updater
    <3>2. QED
      BY <2>2, <3>1, Restarting DEF RepairEnds
  <2>3. CASE RepairFails
    BY <2>3 DEF RepairFails
  <2>4. QED
    BY <1>4, <2>1, <2>2, <2>3 DEF RepairStep
<1>5. ASSUME NEW u \in Updater, BeginOther(u) PROVE PartialIsMarked'
  <2>1. /\ Begin(u) /\ repair' = repair /\ cut' = cut
        /\ head' = head /\ installed' = installed /\ marker' = marker
    BY <1>5 DEF BeginOther, boot
  <2>2. /\ ~overlapped /\ repair # "run" /\ \A v \in Updater : updater[v].pc = "idle"
        /\ \A v \in Updater : updater'[v].pc # "rerun"
    BY <2>1, Beginning
  <2>3. QED
    BY <2>1, <2>2
<1>6. ASSUME NEW u \in Updater, UpdateStep(u) PROVE PartialIsMarked'
  <2>0. /\ updater[u].pc # "idle" /\ repair' = repair /\ repair # "run" /\ ~overlapped /\ ~cut
        /\ \A v \in Updater \ {u} : updater[v].pc = "idle"
    BY <1>6, UpdateStepAlike
  <2>1. CASE UpToDate(u) \/ Raises(u) \/ HandlerRaises(u) \/ RollbackFails(u)
    <3>1. Idles(u) /\ head' = head /\ installed' = installed /\ (marker => marker')
            /\ updater[u].pc # "run"
      BY <2>1 DEF UpToDate, Raises, HandlerRaises, RollbackFails
    <3>2. \A v \in Updater : updater'[v].pc = "idle"
      BY <2>0, <3>1, Moves
    <3>3. QED
      BY <2>0, <3>1, <3>2
  <2>2. CASE Fetched(u)
    <3>1. Goto(u, "run")
      BY <2>2 DEF Fetched
    <3>2. updater'[u].pc = "run" /\ \A v \in Updater : updater'[v].pc # "rerun"
      BY <2>0, <3>1, Moves
    <3>3. QED
      BY <2>0, <3>2
  <2>3. CASE Fails(u)
    BY <2>0, <2>3 DEF Fails
  <2>4. CASE ScriptEnds(u)
    <3>1. installed' = head /\ head' = head
      BY <2>4 DEF ScriptEnds
    <3>2. \A v \in Updater : updater'[v].pc # "rerun"
      <4>1. CASE u = "remote"
        BY <2>0, <2>4, <4>1, Moves DEF ScriptEnds
      <4>2. CASE u # "remote"
        <5>1. PICK dying \in SUBSET Updater : u \in dying /\ Restarts(dying)
          BY <2>4, <4>2 DEF ScriptEnds, InMain, Updater
        <5>2. QED
          BY <2>0, <5>1, Restarting
      <4>3. QED
        BY <4>1, <4>2
    <3>3. QED
      BY <2>0, <3>1, <3>2
  <2>5. CASE TerminalActions(u)
    <3>1. /\ head' = head /\ installed' = installed /\ marker' = marker
          /\ updater[u].pc = "terminal"
      BY <2>5 DEF TerminalActions
    <3>2. \A v \in Updater : updater'[v].pc # "rerun"
      BY <2>0, <2>5, Moves
    <3>3. QED
      BY <2>0, <3>1, <3>2
  <2>6. CASE RestartServices(u)
    <3>1. /\ Restarts(InMain \cup {"mcp"}) /\ head' = head /\ installed' = installed
          /\ marker' = marker /\ updater[u].pc = "restart"
      BY <2>6 DEF RestartServices
    <3>2. \A v \in Updater : updater'[v].pc # "rerun"
      BY <2>0, <3>1, Restarting DEF InMain, Updater
    <3>3. QED
      BY <2>0, <3>1, <3>2
  <2>7. CASE RollbackEnds(u)
    <3>1. installed' = head /\ head' = head
      BY <2>7 DEF RollbackEnds
    <3>2. \A v \in Updater : updater'[v].pc # "rerun"
      <4>1. CASE u = "mcp"
        <5>1. Restarts(InMain \cup {"mcp"}) /\ u \in InMain \cup {"mcp"}
                /\ InMain \cup {"mcp"} \in SUBSET Updater
          BY <2>7, <4>1 DEF RollbackEnds, InMain, Updater
        <5>2. QED
          BY <2>0, <5>1, Restarting
      <4>2. CASE u # "mcp"
        BY <2>0, <2>7, <4>2, Moves DEF RollbackEnds
      <4>3. QED
        BY <4>1, <4>2
    <3>3. QED
      BY <2>0, <3>1, <3>2
  <2>8. QED
    BY <1>6, <2>1, <2>2, <2>3, <2>4, <2>5, <2>6, <2>7 DEF UpdateStep
<1>7. QED
  BY <1>1, <1>2, <1>3, <1>4, <1>5, <1>6, FirmwareCases

LEMMA FirmwareInvStep == FirmwareInv /\ [FirmwareNext]_firmwareVars => FirmwareInv'
BY FirmwareTypeStep, BannerStep, OneAtWorkStep, UpgradeShownStep, PartialStep DEF FirmwareInv

LEMMA FirmwareInvariant == FirmwareSpec => []FirmwareInv
BY FirmwareInvInit, FirmwareInvStep, PTL DEF FirmwareSpec

\* Every variable has its type.
THEOREM FirmwareTypeCorrect == FirmwareSpec => []FirmwareTypeOK
<1>1. FirmwareInv => FirmwareTypeOK
  BY DEF FirmwareInv
<1>2. QED
  BY FirmwareInvariant, <1>1, PTL

\* No persistent banner outlives its update, whatever other updates, restarts and messages
\* come between (wrap_firmware_update_with_snackbar).
THEOREM BannerGoes == FirmwareSpec => []BannerHasUpdate
<1>1. FirmwareInv => BannerHasUpdate
  BY DEF FirmwareInv
<1>2. QED
  BY FirmwareInvariant, <1>1, PTL

\* While the files of the device change the other programs are told so, if no two updates
\* overlap (upgrade_state.py).
THEOREM UpgradeIsShown == FirmwareSpec => []UpgradeShown
<1>1. FirmwareInv => UpgradeShown
  BY DEF FirmwareInv
<1>2. QED
  BY FirmwareInvariant, <1>1, PTL

\* A half installed device has the marker that makes the next boot repair it, if no two
\* updates overlap and it is not switched off in one (update_repair.py).
THEOREM HalfInstalledIsRepaired == FirmwareSpec => []HalfInstalledIsMarked
<1>1. FirmwareInv => HalfInstalledIsMarked
  BY DEF FirmwareInv, PartialIsMarked, HalfInstalledIsMarked, Working
<1>2. QED
  BY FirmwareInvariant, <1>1, PTL
================================================================================
