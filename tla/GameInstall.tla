------------------------------ MODULE GameInstall -------------------------------
(***************************************************************************)
(* How games get onto the device and off it: the games part of             *)
(* RemoteDeviceConfigApplier (runtime/remote_device_config.py), the        *)
(* background downloads of game_lifecycle.py, the incoming statuses of     *)
(* domain/game_remote_sync.py and the published ones of                    *)
(* supabase_sync_bridge.py.                                                *)
(*                                                                         *)
(* Every change of the row arrives as a snapshot.  The "server" thread     *)
(* applies one after the other, in phases, and each phase game by game:    *)
(* todo holds the games it has still to visit.  Downloads run in threads   *)
(* of Worker beside it, and the "main" loop runs games.  The threads meet  *)
(* in marked, inflight, cache and the installed games.                     *)
(*                                                                         *)
(* A version is a number, 0 that of a game that is not installed.  Left    *)
(* out: the menu, the failed-setup marker (a failed setup is a failed      *)
(* download), the clocks that decide whether a remote "playing" is         *)
(* accepted (it may be or not), the websocket's downloads, and the         *)
(* applier's check for duplicates: its fingerprint has the time of the     *)
(* row, and the reducer has refused a snapshot no newer than the last.     *)
(***************************************************************************)
EXTENDS Naturals, Sequences

CONSTANTS
  Game,        \* games of the row
  Worker,      \* threads of download_game_async; bound: one for each game is enough
  MaxVersion,  \* newest version of a game
  MaxChange,   \* bound: commands of the app and the user in a behaviour
  Nothing      \* stands for None

ASSUME GameAssumption ==
  /\ MaxVersion \in Nat \ {0} /\ MaxChange \in Nat
  /\ Nothing \notin Game
  /\ "server" \notin Worker /\ "main" \notin Worker

Version == 1..MaxVersion
Thread  == Worker \cup {"server", "main"}
Status  == {"ready", "downloading", "playing", "error"}
Entry   == [status : Status \cup {"absent"}, version : 0..MaxVersion]
Update  == [game : Game, status : Status \cup {"removed"}, version : 0..MaxVersion]
Job     == [game : Game \cup {Nothing}, version : 0..MaxVersion,
            kind : {"none", "recovery", "resume", "command", "play"}]
Label   == {"idle",
            "received", "recover", "folders", "resume", "cleanup", "commands", "play", "launch",
            "check", "fetch", "done", "failed", "gone", "unmark", "release", "run", "quit"}

VARIABLES
  row,        \* the games of the cloud row
  inbox,      \* snapshots of the row on their way to the device
  out,        \* updates on their way to the row, as the outbox delivers them
  changes,    \* commands of the app and the user so far
  snap,       \* the snapshot being applied: _remote_games_by_id
  origin,     \* its last_update_source: "app" or "bridge"
  startup,    \* awaiting_games_ready_confirmation, to the end of that snapshot
  todo,       \* games the server thread has still to visit in this phase
  marked,     \* remote_downloading_game_ids
  inflight,   \* _game_background_download_inflight
  cache,      \* _published_game_status
  local,      \* the version of each installed game
  running,    \* the game that runs, ctx.game
  launch,     \* start_game and game_id
  pc,         \* where a thread is
  job,        \* the game a thread is at, the version it wants, and what for
  msg         \* the update a thread is about to publish

outside  == <<row, inbox, changes>>
cloud    == <<outside, out>>
snapshot == <<snap, origin, startup>>
play     == <<running, launch>>
control  == <<pc, job>>
gvars    == <<cloud, snapshot, todo, marked, inflight, cache, local, play, control, msg>>

NoEntry == [status |-> "absent", version |-> 0]
NoJob   == [game |-> Nothing, version |-> 0, kind |-> "none"]
Listed  == {g \in Game : snap[g].status # "absent"}
--------------------------------------------------------------------------------
\* The device starts with any games and any row, whose snapshot is on its way.
\* Where changes starts bounds the commands to come.
GameInit ==
  /\ row \in [Game -> {e \in Entry : e.status = "absent" <=> e.version = 0}]
  /\ inbox = <<[games |-> row, origin |-> "bridge"]>>
  /\ out = <<>> /\ changes \in 0..MaxChange
  /\ snap = [g \in Game |-> NoEntry] /\ origin = "bridge" /\ startup = TRUE
  /\ todo = {} /\ marked = {} /\ inflight = {}
  /\ cache = [g \in Game |-> NoEntry]
  /\ local \in [Game -> 0..MaxVersion]
  /\ running = Nothing /\ launch = Nothing
  /\ pc = [t \in Thread |-> "idle"]
  /\ job = [t \in Thread |-> NoJob]
  /\ msg = [t \in Thread |-> Nothing]
--------------------------------------------------------------------------------
\* A thread takes its next step once it has published what it has to.
At(t, label) == pc[t] = label /\ msg[t] = Nothing

Goto(t, label) == pc' = [pc EXCEPT ![t] = label]

Told(g, s, v) == [game |-> g, status |-> s, version |-> v]

\* publish_partial_state
Send(updates) == out' = IF updates = {} THEN out ELSE Append(out, updates)

\* Before the first snapshot it is not known what the row lists.
Unlisted(g) == g \notin Listed /\ ~(startup /\ pc["server"] = "idle")

\* request_set_game_status: nothing for a game the row does not list, nothing for
\* what was published last.  The version is the higher of local and remote.
RequestFrom(published, t, g, s) ==
  LET v    == IF local[g] >= snap[g].version THEN local[g] ELSE snap[g].version
      told == [status |-> s, version |-> v]
  IN  IF Unlisted(g) \/ published[g] = told
      THEN cache' = published /\ UNCHANGED msg
      ELSE /\ cache' = [published EXCEPT ![g] = told]
           /\ msg' = [msg EXCEPT ![t] = Told(g, s, v)]

RequestStatus(t, g, s) == RequestFrom(cache, t, g, s)

\* The enqueue in the outbox comes after the cache has been changed.
Publish(t) ==
  /\ msg[t] # Nothing
  /\ Send({msg[t]})
  /\ msg' = [msg EXCEPT ![t] = Nothing]
  /\ UNCHANGED <<row, inbox, changes, snapshot, todo, marked, inflight, cache, local,
                 play, control>>

\* Without the look at inflight.
StartDownload_Again(g, v, kind) ==
  /\ \E w \in Worker : pc[w] = "idle"
  /\ LET w == CHOOSE w \in Worker : pc[w] = "idle"
     IN  /\ job' = [job EXCEPT ![w] = [game |-> g, version |-> v, kind |-> kind]]
         /\ Goto(w, "check")
  /\ inflight' = inflight \cup {g}

\* The start of download_game_async: one download of a game at a time, else nothing.
\* The server thread stays where it is.
StartDownload(g, v, kind) ==
  IF g \in inflight
  THEN UNCHANGED <<inflight, control>>
  ELSE /\ \E w \in Worker : pc[w] = "idle"
       /\ LET w == CHOOSE w \in Worker : pc[w] = "idle"
          IN  /\ job' = [job EXCEPT ![w] = [game |-> g, version |-> v, kind |-> kind]]
              /\ Goto(w, "check")
       /\ inflight' = inflight \cup {g}

Terminate(g) == running' = IF running = g THEN Nothing ELSE running
--------------------------------------------------------------------------------
\* The row, the app and the user.
Change(games, from) ==
  /\ row' = games
  /\ inbox' = Append(inbox, [games |-> games, origin |-> from])

\* The row takes the updates for the games it lists, and drops a removed one.
RowTakes ==
  /\ out # <<>>
  /\ out' = Tail(out)
  /\ Change([g \in Game |->
             IF row[g].status # "absent" /\ \E u \in Head(out) : u.game = g
             THEN LET u == CHOOSE u \in Head(out) : u.game = g
                  IN  IF u.status = "removed" THEN NoEntry
                      ELSE [status |-> u.status, version |-> u.version]
             ELSE row[g]], "bridge")
  /\ UNCHANGED <<changes, snapshot, todo, marked, inflight, cache, local, play, control, msg>>

\* The app installs or updates a game, has it played or stopped, removes it, or
\* changes something else in the row (the games then come again, from the app).
AppChange ==
  /\ changes < MaxChange /\ changes' = changes + 1
  /\ \E g \in Game :
       \/ \E v \in Version : Change([row EXCEPT ![g] = [status |-> "downloading", version |-> v]], "app")
       \/ \E s \in {"playing", "ready"} :
            row[g].status # "absent" /\ Change([row EXCEPT ![g].status = s], "app")
       \/ Change([row EXCEPT ![g] = NoEntry], "app")
       \/ Change(row, "app")
  /\ UNCHANGED <<out, snapshot, todo, marked, inflight, cache, local, play, control, msg>>
--------------------------------------------------------------------------------
\* The server thread.
Missing(g) == local[g] = 0

\* The phases of a snapshot.  The first one commands nothing.
Phases == IF startup THEN <<"recover", "folders", "resume", "cleanup">>
                     ELSE <<"folders", "cleanup", "recover", "commands">>

\* The games a phase visits.  After settlement every status but "downloading"
\* counts as "ready" (games_cfg_for_startup_recovery).
Visits(phase) ==
  CASE phase = "recover"  -> {g \in Listed : \/ snap[g].status = "ready"
                                             \/ startup /\ snap[g].status # "downloading"}
    [] phase = "folders"  -> {g \in Game : ~Missing(g)} \ Listed
    [] phase = "resume"   -> {g \in Listed : snap[g].status = "downloading"}
    [] phase = "cleanup"  -> marked \ Listed
    [] phase = "commands" -> Listed

\* A new snapshot.  The first one settles the games: every status but "ready" and
\* "downloading" is published as "ready".
Receive ==
  /\ At("server", "idle") /\ inbox # <<>>
  /\ inbox' = Tail(inbox)
  /\ snap' = Head(inbox).games /\ origin' = Head(inbox).origin
  /\ Send(IF startup
          THEN {Told(g, "ready", snap'[g].version) :
                  g \in {h \in Game : snap'[h].status \notin {"absent", "ready", "downloading"}}}
          ELSE {})
  /\ Goto("server", "received")
  /\ UNCHANGED <<row, changes, startup, todo, marked, inflight, cache, local, play, job, msg>>

\* On to the next phase with a game to visit, or done with the snapshot.
Advance ==
  /\ todo = {}
  /\ \E i \in 0..4 :
       /\ IF i = 0 THEN At("server", "received") ELSE At("server", Phases[i])
       /\ LET rest == {j \in i + 1 .. 4 : Visits(Phases[j]) # {}}
          IN  IF rest = {}
              THEN Goto("server", "idle") /\ startup' = FALSE /\ todo' = {}
              ELSE LET j == CHOOSE j \in rest : \A k \in rest : j <= k
                   IN  Goto("server", Phases[j]) /\ todo' = Visits(Phases[j]) /\ UNCHANGED startup
  /\ UNCHANGED <<cloud, snap, origin, marked, inflight, cache, local, play, job, msg>>

\* Visit takes the next game of a phase.
Visit(phase, g) == At("server", phase) /\ g \in todo /\ todo' = todo \ {g}

\* _recover_missing_ready_games_on_startup
Recover(g) ==
  /\ Visit("recover", g)
  /\ IF Missing(g)
     THEN /\ Send({Told(g, "downloading", snap[g].version)})
          /\ marked' = marked \cup {g}
          /\ StartDownload(g, snap[g].version, "recovery")
     ELSE UNCHANGED <<out, marked, inflight, control>>
  /\ UNCHANGED <<outside, snapshot, cache, local, play, msg>>

\* _reconcile_local_game_folders
RemoveFolder(g) ==
  /\ Visit("folders", g)
  /\ marked' = marked \ {g}
  /\ Terminate(g)
  /\ local' = [local EXCEPT ![g] = 0]
  /\ cache' = [cache EXCEPT ![g] = NoEntry]
  /\ UNCHANGED <<cloud, snapshot, inflight, launch, control, msg>>

\* With the callbacks of a recovery, which publish no failure.
Resume_AsRecovery(g) ==
  /\ Visit("resume", g)
  /\ IF local[g] >= snap[g].version
     THEN /\ RequestStatus("server", g, "ready")
          /\ marked' = marked \ {g}
          /\ UNCHANGED <<inflight, control>>
     ELSE /\ marked' = marked \cup {g}
          /\ StartDownload(g, snap[g].version, "recovery")
          /\ UNCHANGED <<cache, msg>>
  /\ UNCHANGED <<cloud, snapshot, local, play>>

\* _reconcile_downloading_games
Resume(g) ==
  /\ Visit("resume", g)
  /\ IF local[g] >= snap[g].version
     THEN /\ RequestStatus("server", g, "ready")
          /\ marked' = marked \ {g}
          /\ UNCHANGED <<inflight, control>>
     ELSE /\ marked' = marked \cup {g}
          /\ StartDownload(g, snap[g].version, "resume")
          /\ UNCHANGED <<cache, msg>>
  /\ UNCHANGED <<cloud, snapshot, local, play>>

Cleanup(g) ==
  /\ Visit("cleanup", g)
  /\ marked' = marked \ {g}
  /\ UNCHANGED <<cloud, snapshot, inflight, cache, local, play, control, msg>>
--------------------------------------------------------------------------------
\* The commands of a snapshot.
Heeded(g, s) == snap[g].status = s /\ ~(origin = "bridge" /\ s # "error")

\* What the device itself published is not a command.
IgnoreEcho(g) ==
  /\ Visit("commands", g)
  /\ ~Heeded(g, snap[g].status)
  /\ UNCHANGED <<cloud, snapshot, marked, inflight, cache, local, play, control, msg>>

\* What was published last is never forgotten.
Forgotten_Never(g) == cache

\* Only a game that was not marked has its published status forgotten.
Forgotten(g) == IF g \in marked THEN cache ELSE [cache EXCEPT ![g] = NoEntry]

\* "downloading" for a game that is up to date: it is answered, and stays marked.
InstallDone(g) ==
  /\ Visit("commands", g) /\ Heeded(g, "downloading")
  /\ local[g] >= snap[g].version
  /\ marked' = marked \cup {g}
  /\ RequestFrom(Forgotten(g), "server", g, "ready")
  /\ UNCHANGED <<cloud, snapshot, inflight, local, play, control>>

Install(g) ==
  /\ Visit("commands", g) /\ Heeded(g, "downloading")
  /\ local[g] < snap[g].version
  /\ marked' = marked \cup {g}
  /\ cache' = Forgotten(g)
  /\ StartDownload(g, snap[g].version, "command")
  /\ UNCHANGED <<cloud, snapshot, local, play, msg>>

\* "ready" stops the game if it runs; "error" does nothing.
Stop(g) ==
  /\ Visit("commands", g) /\ (Heeded(g, "ready") \/ Heeded(g, "error"))
  /\ marked' = marked \ {g}
  /\ IF running = g /\ snap[g].status = "ready"
     THEN Terminate(g) /\ RequestStatus("server", g, "ready")
     ELSE UNCHANGED <<running, cache, msg>>
  /\ UNCHANGED <<cloud, snapshot, inflight, local, launch, control>>

\* "playing" may be refused as stale; the game that runs already is left alone;
\* another one is stopped first.
Play(g) ==
  /\ Visit("commands", g) /\ Heeded(g, "playing")
  /\ marked' = marked \ {g}
  /\ \/ UNCHANGED <<running, cache, control, msg>>
     \/ /\ running # g
        /\ Goto("server", "play")
        /\ job' = [job EXCEPT !["server"] = [game |-> g, version |-> snap[g].version, kind |-> "play"]]
        /\ running' = Nothing
        /\ IF running # Nothing THEN RequestStatus("server", running, "ready")
                                ELSE UNCHANGED <<cache, msg>>
  /\ UNCHANGED <<cloud, snapshot, inflight, local, launch>>

\* A game that is missing is downloaded by the server thread itself.
PlayMissing ==
  /\ At("server", "play")
  /\ IF Missing(job["server"].game)
     THEN RequestStatus("server", job["server"].game, "downloading") /\ Goto("server", "check")
     ELSE UNCHANGED <<cache, msg>> /\ Goto("server", "launch")
  /\ UNCHANGED <<cloud, snapshot, todo, marked, inflight, local, play, job>>

\* The launch is left to the main loop.  The games after it are visited only when
\* the game runs already or the main loop has taken it at once.
Launch ==
  /\ At("server", "launch")
  /\ LET g == job["server"].game
     IN  IF running = g THEN UNCHANGED <<launch, todo>>
                        ELSE launch' = g /\ todo' \in {{}, todo}
  /\ Goto("server", "commands")
  /\ job' = [job EXCEPT !["server"] = NoJob]
  /\ UNCHANGED <<cloud, snapshot, marked, inflight, cache, local, running, msg>>
--------------------------------------------------------------------------------
\* ensure_game_downloaded: a game new enough is left alone; else a version as new as
\* the wanted one is installed, or the download fails, or the backend no longer has
\* the game.
Check(t, ok) ==
  /\ At(t, "check")
  /\ Goto(t, IF local[job[t].game] >= job[t].version THEN ok ELSE "fetch")
  /\ UNCHANGED <<cloud, snapshot, todo, marked, inflight, cache, local, play, job, msg>>

Fetch(t, ok, failed, gone) ==
  /\ At(t, "fetch")
  /\ \/ /\ \E v \in {u \in Version : u >= job[t].version} :
             local' = [local EXCEPT ![job[t].game] = v]
        /\ Goto(t, ok)
     \/ UNCHANGED local /\ (Goto(t, failed) \/ Goto(t, gone))
  /\ UNCHANGED <<cloud, snapshot, todo, marked, inflight, cache, play, job, msg>>

Removed(g) == {Told(g, "removed", 0)}

\* The download for a "playing" has failed, or the backend no longer has the game.
PlayFails ==
  /\ \/ At("server", "failed") /\ UNCHANGED <<out, marked>>
     \/ /\ At("server", "gone")
        /\ Send(Removed(job["server"].game))
        /\ marked' = marked \ {job["server"].game}
  /\ Goto("server", "commands")
  /\ job' = [job EXCEPT !["server"] = NoJob]
  /\ UNCHANGED <<outside, snapshot, todo, inflight, cache, local, play, msg>>

Server ==
  \/ Receive \/ Advance
  \/ \E g \in Game : \/ Recover(g) \/ RemoveFolder(g) \/ Resume(g) \/ Cleanup(g)
                     \/ IgnoreEcho(g) \/ InstallDone(g) \/ Install(g) \/ Stop(g) \/ Play(g)
  \/ PlayMissing \/ Launch \/ PlayFails
  \/ Check("server", "launch") \/ Fetch("server", "launch", "failed", "gone")
--------------------------------------------------------------------------------
\* A thread of download_game_async.

\* on_success: a recovery publishes past request_set_game_status.
OnSuccess(w) ==
  /\ At(w, "done")
  /\ IF job[w].kind = "recovery"
     THEN Send({Told(job[w].game, "ready", job[w].version)}) /\ UNCHANGED <<cache, msg>>
     ELSE RequestStatus(w, job[w].game, "ready") /\ UNCHANGED out
  /\ Goto(w, "unmark")
  /\ UNCHANGED <<outside, snapshot, todo, marked, inflight, local, play, job>>

\* A removed game goes through request_set_game_status, as any status.
OnFailure_Requested(w) ==
  /\ At(w, "failed") \/ At(w, "gone")
  /\ RequestStatus(w, job[w].game, IF pc[w] = "gone" THEN "removed" ELSE "error")
  /\ Goto(w, "unmark")
  /\ UNCHANGED <<cloud, snapshot, todo, marked, inflight, local, play, job>>

\* on_failure: a recovery publishes nothing but the removal of the game.
OnFailure(w) ==
  /\ At(w, "failed") \/ At(w, "gone")
  /\ \/ pc[w] = "gone" /\ Send(Removed(job[w].game)) /\ UNCHANGED <<cache, msg>>
     \/ /\ pc[w] = "failed" /\ UNCHANGED out
        /\ IF job[w].kind = "recovery" THEN UNCHANGED <<cache, msg>>
                                       ELSE RequestStatus(w, job[w].game, "error")
  /\ Goto(w, "unmark")
  /\ UNCHANGED <<outside, snapshot, todo, marked, inflight, local, play, job>>

Unmark(w) ==
  /\ At(w, "unmark")
  /\ marked' = marked \ {job[w].game}
  /\ Goto(w, "release")
  /\ UNCHANGED <<cloud, snapshot, todo, inflight, cache, local, play, job, msg>>

Release(w) ==
  /\ At(w, "release")
  /\ inflight' = inflight \ {job[w].game}
  /\ Goto(w, "idle")
  /\ job' = [job EXCEPT ![w] = NoJob]
  /\ UNCHANGED <<cloud, snapshot, todo, marked, cache, local, play, msg>>

Download(w) ==
  \/ Check(w, "done") \/ Fetch(w, "done", "failed", "gone")
  \/ OnSuccess(w) \/ OnFailure(w) \/ Unmark(w) \/ Release(w)
--------------------------------------------------------------------------------
\* The main loop: a game is started for a command, or by the user in the menu.
Start(g) ==
  /\ At("main", "idle")
  /\ job' = [job EXCEPT !["main"] = [game |-> g, version |-> 1, kind |-> "play"]]
  /\ running' = Nothing
  /\ Goto("main", "check")
  /\ UNCHANGED <<row, inbox, out, snapshot, todo, marked, inflight, cache, local, msg>>

LaunchGame == \E g \in Game : launch = g /\ launch' = Nothing /\ Start(g) /\ UNCHANGED changes

UserStarts ==
  /\ changes < MaxChange /\ changes' = changes + 1
  /\ running = Nothing
  /\ \E g \in Game : ~Missing(g) /\ Start(g)
  /\ UNCHANGED launch

\* start_game_process, after a missing game has been downloaded in any version: the
\* process starts or does not.
RunGame ==
  /\ At("main", "run") \/ At("main", "quit")
  /\ \/ /\ pc["main"] = "run" /\ ~Missing(job["main"].game)
        /\ running' = job["main"].game
        /\ RequestStatus("main", job["main"].game, "playing")
     \/ UNCHANGED <<running, cache, msg>>
  /\ Goto("main", "idle")
  /\ job' = [job EXCEPT !["main"] = NoJob]
  /\ UNCHANGED <<cloud, snapshot, todo, marked, inflight, local, launch>>

\* The process exits, or the user ends it.
EndGame ==
  /\ At("main", "idle") /\ running # Nothing
  /\ running' = Nothing
  /\ RequestStatus("main", running, "ready")
  /\ UNCHANGED <<cloud, snapshot, todo, marked, inflight, local, launch, control>>

MainLoop == LaunchGame \/ Check("main", "run") \/ Fetch("main", "run", "run", "quit") \/ RunGame
--------------------------------------------------------------------------------
GameNext ==
  \/ Server \/ MainLoop \/ UserStarts \/ EndGame \/ RowTakes \/ AppChange
  \/ \E w \in Worker : Download(w)
  \/ \E t \in Thread : Publish(t)

GameSpec == GameInit /\ [][GameNext]_gvars

\* Threads go on, a download ends one way or another (its requests have timeouts
\* and its retries are counted), and the outbox delivers.
GameFairness ==
  /\ WF_gvars(Server) /\ WF_gvars(MainLoop) /\ WF_gvars(RowTakes)
  /\ \A w \in Worker : WF_gvars(Download(w))
  /\ \A t \in Thread : WF_gvars(Publish(t))
--------------------------------------------------------------------------------
GameTypeOK ==
  /\ row \in [Game -> Entry] /\ snap \in [Game -> Entry]
  /\ inbox \in Seq([games : [Game -> Entry], origin : {"app", "bridge"}])
  /\ out \in Seq(SUBSET Update)
  /\ changes \in 0..MaxChange
  /\ origin \in {"app", "bridge"} /\ startup \in BOOLEAN
  /\ todo \subseteq Game /\ marked \subseteq Game /\ inflight \subseteq Game
  /\ cache \in [Game -> Entry]
  /\ local \in [Game -> 0..MaxVersion]
  /\ running \in Game \cup {Nothing} /\ launch \in Game \cup {Nothing}
  /\ pc \in [Thread -> Label]
  /\ job \in [Thread -> Job]
  /\ msg \in [Thread -> Update \cup {Nothing}]

\* A game is in flight exactly while one thread downloads it in the background
\* ("to prevent duplicate concurrent downloads", game_lifecycle.py).
Live(w) == pc[w] # "idle"

OneDownloadPerGame ==
  /\ \A v, w \in Worker : Live(v) /\ Live(w) /\ job[v].game = job[w].game => v = w
  /\ inflight = {job[w].game : w \in {v \in Worker : Live(v)}}

\* A download started for the row's "downloading", by a command or at startup, is
\* answered: the row leaves "downloading".
DownloadAnswered ==
  \A g \in Game :
    (\E w \in Worker : pc[w] = "check" /\ job[w].game = g /\ job[w].kind # "recovery")
      ~> (row[g].status # "downloading")

\* A "downloading" that the device finds at its start is resumed or cleared, and so
\* is answered too (_reconcile_downloading_games: "Resume or clear").
StartupResumed ==
  \A g \in Game :
    (At("server", "resume") /\ g \in todo) ~> (row[g].status # "downloading")

\* So is "downloading" for a game that is installed already: "ready/error always get
\* through" (supabase_sync_bridge.py).
UpToDateAnswered ==
  \A g \in Game :
    (At("server", "commands") /\ g \in todo /\ Heeded(g, "downloading") /\ local[g] >= snap[g].version)
      ~> (row[g].status # "downloading")
================================================================================
