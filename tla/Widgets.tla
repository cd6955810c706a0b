--------------------------------- MODULE Widgets --------------------------------
(***************************************************************************)
(* Widget pages and their processes: widget_lifecycle.py, states/widget.py *)
(* and the reloads of main.py.                                             *)
(*                                                                         *)
(* The main loop shows a page, rotates, stops and continues processes,     *)
(* restarts those that ended, and reloads the pages.  Three others change  *)
(* the same list without a lock: a websocket request that writes conf.json *)
(* reloads the pages on its own thread, the server thread patches them     *)
(* from a snapshot of the row, and the thread of a download kills the      *)
(* process of the app it has replaced.                                     *)
(*                                                                         *)
(* A page has one widget, whose id is the page's app; what can change of   *)
(* it in conf.json is its fields.  An app may be installed and not ready:  *)
(* its sidecar is not one of a widget, or its venv is not prepared.        *)
(* Clocks (durations, the throttle, the hourly check) only say that        *)
(* something may happen now.  A screen is the menu, the widgets or a game. *)
(***************************************************************************)
EXTENDS Sequences, Naturals

CONSTANTS
  App,            \* widget ids
  PageConf,       \* what conf.json may hold: sequences of pages
  BootConf,       \* what it holds at boot
  PageRequester,  \* websocket requests that write conf.json
  MaxWidgetEvent  \* bound: inputs, requests, snapshots and failures in a behaviour

MainLoop  == "main loop"
Reloader  == {MainLoop} \cup PageRequester
QrPage    == 0         \* uuid of the default page
QrWidget  == "0"       \* id of its widget
NoPage    == 0         \* last_page_index = -1

ASSUME PageAssumption ==
  /\ MainLoop \notin PageRequester /\ QrWidget \notin App
  /\ \A c \in PageConf :
       /\ c \in Seq([uuid : Nat \ {QrPage}, app : App, fields : Nat, enabled : BOOLEAN])
       /\ \A i, j \in DOMAIN c : c[i].uuid = c[j].uuid => i = j
  /\ BootConf \in PageConf /\ MaxWidgetEvent \in Nat

VARIABLES
  conf,         \* pages of apps/conf.json
  pages,        \* ctx.pages: of an entry the configuration and the state of its process
  shown,        \* ctx.page_index, from 1
  last,         \* ctx.last_page_index
  frozen,       \* ctx.page_freeze
  screen,       \* ctx.state_str
  home,         \* the screen init_widgets leads to: "menu", on a Pixelboard "widget"
  reloadConf,   \* ctx.reload_conf
  reloadPages,  \* ctx.reload_pages
  apps,         \* the apps whose folder is there
  ready,        \* those of them that can be launched
  fetching,     \* a download: its state, whether it tells the page, the entry it kills
  throttled,    \* apps whose download was attempted less than 30 seconds ago
  marked,       \* widgets_updated
  reload,       \* where a thread is in a reload, with what it read and keeps
  restarting,   \* the entry the main loop is starting a process for
  patch,        \* where the server thread is in a soft apply
  print,        \* fingerprints of the last pages of the bridge and of others, if any
  split,        \* history: a snapshot has written or applied its pages, and not both
  requested,    \* history: a request has written pages
  wevents

widgetVars == <<conf, pages, shown, last, frozen, screen, home, reloadConf, reloadPages, apps, ready,
                fetching, throttled, marked, reload, restarting, patch, print, split, requested, wevents>>
display   == <<shown, last, frozen, screen, home>>
flags      == <<reloadConf, reloadPages>>
files      == <<conf, apps, ready>>
downloads  == <<fetching, throttled, marked>>
threads    == <<reload, restarting, patch, print, split, requested>>

Live     == {"running", "stopped"}
Fetch    == [pc : {"none", "load", "venv", "tell", "kill"}, tells : BOOLEAN, at : Nat]
NoFetch  == [pc |-> "none", tells |-> FALSE, at |-> 0]
NoReload == [pc |-> "idle", hard |-> FALSE, read |-> <<>>, keep |-> QrPage]
AtRest   == [on |-> FALSE, at |-> 0]
NoPatch  == [pc |-> "idle", new |-> <<>>, applies |-> FALSE, at |-> 0, active |-> 0, gone |-> FALSE]

WidgetEvent == wevents < MaxWidgetEvent /\ wevents' = wevents + 1
AtTop       == reload[MainLoop].pc = "idle" /\ ~restarting.on

Entry(p, s) == [uuid |-> p.uuid, app |-> p.app, fields |-> p.fields, enabled |-> p.enabled, proc |-> s]
DefaultPage == [uuid |-> QrPage, app |-> QrWidget, fields |-> 0, enabled |-> TRUE]
\* start_page_process stops what it starts; an app that is not ready is not started.  The
\* start of page f fails, of none if f is 0: its entry has None for a process, "unstarted"
\* on the default page.
Build(c, f) ==
  Append([i \in DOMAIN c |-> Entry(c[i], IF c[i].app \in ready /\ i # f THEN "stopped" ELSE "none")],
         Entry(DefaultPage, IF f = Len(c) + 1 THEN "unstarted" ELSE "stopped"))
Uuids(list) == [i \in DOMAIN list |-> list[i].uuid]
SetProc(i, s) == [pages EXCEPT ![i].proc = s]
Killed(i)     == SetProc(i, "none")
--------------------------------------------------------------------------------
\* What init_widgets leaves at boot.
PagesAtBoot ==
  /\ conf = BootConf
  /\ \E f \in 0..(Len(conf) + 1) : pages = Build(conf, f)
  /\ shown = 1 /\ last = NoPage /\ frozen = FALSE
  /\ home \in {"menu", "widget"} /\ screen = home
  /\ reloadConf = FALSE

\* No snapshot was applied yet.
NoSnapshotYet == print = [bridge |-> {}, other |-> {}]

\* No download of this process has been attempted yet; an earlier one may have left an app
\* without a venv.
NoDownloadYet ==
  /\ apps \in SUBSET App /\ ready \in SUBSET apps
  /\ fetching = [a \in App |-> NoFetch] /\ throttled = {} /\ marked = {}

WidgetInit ==
  /\ NoDownloadYet /\ PagesAtBoot /\ NoSnapshotYet
  /\ reloadPages = FALSE /\ split = FALSE /\ requested = FALSE
  /\ reload = [w \in Reloader |-> NoReload] /\ restarting = AtRest /\ patch = NoPatch
  /\ wevents = 0
--------------------------------------------------------------------------------
\* Downloads.
\* download_widget_async: one download of an app at a time.
Fetching(wanted, tells) ==
  fetching' = [a \in App |->
    IF a \in wanted /\ fetching[a].pc = "none" THEN [pc |-> "load", tells |-> tells, at |-> 0]
    ELSE fetching[a]]

\* _request_missing_widget_download; the backend may offer nothing, once in a while.
RequestMissing(a, force) ==
  IF a \notin apps /\ (force \/ a \notin throttled)
  THEN /\ throttled' = throttled \cup {a}
       /\ \/ Fetching({a}, FALSE) /\ UNCHANGED wevents
          \/ WidgetEvent /\ UNCHANGED fetching
  ELSE UNCHANGED <<throttled, fetching, wevents>>

ThrottleEnds(a) ==
  /\ a \in throttled
  /\ throttled' = throttled \ {a}
  /\ UNCHANGED <<files, pages, display, flags, fetching, marked, threads, wevents>>

\* The worker: _download_app_once with its retries puts a new folder in place, without a
\* venv, and prepares the venv in it.
FetchInstalls(a) ==
  /\ fetching[a].pc = "load"
  /\ \/ /\ apps' = apps \cup {a} /\ ready' = ready \ {a}
        /\ fetching' = [fetching EXCEPT ![a].pc = "venv"]
        /\ UNCHANGED wevents
     \/ /\ WidgetEvent
        /\ fetching' = [fetching EXCEPT ![a] = NoFetch]
        /\ UNCHANGED <<apps, ready>>
  /\ UNCHANGED <<conf, pages, display, flags, throttled, marked, threads>>

\* kill_widget_if_page_inactive follows, which looks at the first entry of the app only, and
\* kills after it has looked.  When the venv fails the folder stays.
FetchEnds(a) ==
  /\ fetching[a].pc = "venv"
  /\ \/ /\ ready' = ready \cup {a}
        /\ fetching' = IF fetching[a].tells THEN [fetching EXCEPT ![a].pc = "tell"]
                                            ELSE [fetching EXCEPT ![a] = NoFetch]
        /\ UNCHANGED wevents
     \/ /\ WidgetEvent
        /\ fetching' = [fetching EXCEPT ![a] = NoFetch]
        /\ UNCHANGED ready
  /\ UNCHANGED <<conf, apps, pages, display, flags, throttled, marked, threads>>

First(a) == CHOOSE i \in DOMAIN pages : pages[i].app = a /\ \A j \in 1..(i - 1) : pages[j].app # a

TellPage(a) ==
  /\ fetching[a].pc = "tell"
  /\ IF screen # "widget" \/ \A i \in DOMAIN pages : pages[i].app # a
     THEN fetching' = [fetching EXCEPT ![a] = NoFetch] /\ UNCHANGED marked
     ELSE IF First(a) = shown
     THEN marked' = marked \cup {a} /\ fetching' = [fetching EXCEPT ![a] = NoFetch]
     ELSE /\ fetching' = [fetching EXCEPT ![a] = [@ EXCEPT !.pc = "kill", !.at = First(a)]]
          /\ UNCHANGED marked
  /\ UNCHANGED <<files, pages, display, flags, throttled, threads, wevents>>

KillInactive(a) ==
  /\ fetching[a].pc = "kill"
  /\ pages' = IF fetching[a].at = 0 THEN pages ELSE Killed(fetching[a].at)
  /\ fetching' = [fetching EXCEPT ![a] = NoFetch]
  /\ UNCHANGED <<files, display, flags, throttled, marked, threads, wevents>>
--------------------------------------------------------------------------------
\* The entries another thread holds are no longer of ctx.pages once the list is cleared.
Lost     == [a \in App |-> [fetching[a] EXCEPT !.at = 0]]
DetachOf == /\ restarting' = [restarting EXCEPT !.at = 0]
            /\ patch' = [patch EXCEPT !.gone = (patch.pc # "idle")]

\* term_widget_processes.
Terminate ==
  /\ pages' = <<>>
  /\ fetching' = Lost
  /\ DetachOf

\* _ensure_apps_conf_and_load_pages, with the reload around it, in the steps other threads
\* can see: the old list is cleared, conf.json is read, the new list is built and put in
\* place, and then the indices are set.
ReloadTerminates(w) ==
  /\ reload[w].pc = "term"
  /\ reload' = [reload EXCEPT ![w].pc = "read",
       ![w].keep = IF shown \in DOMAIN pages THEN pages[shown].uuid ELSE QrPage]
  /\ Terminate
  /\ UNCHANGED <<files, display, flags, throttled, marked, print, split, requested, wevents>>

ReloadReads(w) ==
  /\ reload[w].pc = "read"
  /\ reload' = [reload EXCEPT ![w].pc = "build", ![w].read = conf]
  /\ UNCHANGED <<files, pages, display, flags, downloads, restarting, patch, print, split, requested, wevents>>

Missing(c) == {c[i].app : i \in DOMAIN c} \ apps

ReloadBuilds(w) ==
  /\ reload[w].pc = "build"
  /\ \E f \in 0..(Len(reload[w].read) + 1) :
       /\ pages' = Build(reload[w].read, f)
       /\ IF f = 0 THEN UNCHANGED wevents ELSE WidgetEvent
  /\ throttled' = throttled \cup Missing(reload[w].read)
  /\ fetching' = [a \in App |->
       IF a \in Missing(reload[w].read) /\ fetching[a].pc = "none"
       THEN [pc |-> "load", tells |-> FALSE, at |-> 0]
       ELSE Lost[a]]
  /\ DetachOf
  /\ reload' = [reload EXCEPT ![w].pc = "index"]
  /\ UNCHANGED <<files, display, flags, marked, print, split, requested>>

\* The page shown before stays shown, if there still is one; init_widgets starts at the
\* first, and ends in the menu.
KeptIndex(id) ==
  IF \E i \in DOMAIN pages : pages[i].uuid = id
  THEN CHOOSE i \in DOMAIN pages : pages[i].uuid = id /\ \A j \in 1..(i - 1) : pages[j].uuid # id
  ELSE 1

EndReload(w) ==
  /\ reload[w].pc = "index"
  /\ frozen' = FALSE
  /\ IF reload[w].hard
     THEN shown' = 1 /\ screen' = home /\ reloadConf' = FALSE
     ELSE shown' = KeptIndex(reload[w].keep) /\ UNCHANGED <<screen, reloadConf>>
  /\ reload' = [reload EXCEPT ![w] = NoReload]
  /\ UNCHANGED <<files, pages, home, downloads, restarting, patch, print, split, requested, wevents>>
\* Bug: the index of the last iteration survives, though the processes are new and stopped.
ReloadEnds_SamePage(w)   == EndReload(w) /\ UNCHANGED <<last, reloadPages>>
\* Bug: the flag is cleared after the reload, with a request made during it.
ReloadEnds_ClearsFlag(w) == EndReload(w) /\ last' = NoPage /\ reloadPages' = FALSE

ReloadEnds(w) == EndReload(w) /\ last' = NoPage /\ UNCHANGED reloadPages

\* set_pages of a request: conf.json is written, then the pages are reloaded at once.
RequestPages(w) ==
  /\ reload[w].pc = "idle"
  /\ WidgetEvent
  /\ conf' \in PageConf /\ requested' = TRUE
  /\ reload' = [reload EXCEPT ![w] = [NoReload EXCEPT !.pc = "term"]]
  /\ UNCHANGED <<pages, display, flags, apps, ready, downloads, restarting, patch, print, split>>
--------------------------------------------------------------------------------
\* The main loop: an iteration reloads, or shows the widgets, and then takes the buttons.
StartReload ==
  /\ AtTop /\ (reloadConf \/ reloadPages)
  /\ reloadConf' = FALSE
  /\ reloadPages' = (reloadPages /\ reloadConf)
  /\ reload' = [reload EXCEPT ![MainLoop] = [NoReload EXCEPT !.pc = "term", !.hard = reloadConf]]
  /\ UNCHANGED <<files, pages, display, downloads, restarting, patch, print, split, requested, wevents>>

ShowsWidgets == AtTop /\ ~reloadConf /\ ~reloadPages /\ screen = "widget"

\* No pages: a hard reload is asked for.
NoPages ==
  /\ ShowsWidgets /\ pages = <<>>
  /\ reloadConf' = TRUE
  /\ UNCHANGED <<files, pages, display, reloadPages, downloads, threads, wevents>>

IsContent(i) == pages[i].uuid # QrPage /\ pages[i].enabled
\* Enabled pages in the order of a rotation that starts after i; the default page otherwise.
RotationStep(i, k) == ((i - 1 + k) % Len(pages)) + 1
NextPage(i) ==
  IF \E k \in 1..Len(pages) : IsContent(RotationStep(i, k))
  THEN LET k == CHOOSE k \in 1..Len(pages) : /\ IsContent(RotationStep(i, k))
                                             /\ \A l \in 1..(k - 1) : ~IsContent(RotationStep(i, l))
       IN RotationStep(i, k)
  ELSE Len(pages)
InRange == IF shown \in DOMAIN pages THEN shown ELSE 1
\* The default page is left as soon as another one is enabled.
Preferred ==
  IF pages[InRange].uuid = QrPage /\ \E i \in DOMAIN pages : IsContent(i)
  THEN CHOOSE i \in DOMAIN pages : IsContent(i) /\ \A j \in 1..(i - 1) : ~IsContent(j)
  ELSE InRange
Rotating == Len(pages) > 1 /\ ~frozen
\* What an iteration may show: the time of the page is over or not.
Shows == (IF Rotating THEN {NextPage(Preferred)} ELSE {})
           \cup (IF Rotating /\ ~pages[Preferred].enabled THEN {} ELSE {Preferred})

\* restart_widget_process: an app that is missing is asked for, of one that is ready the
\* process is started, and then the entry gets it; one that is there and not ready is
\* refused.
RestartWidget(i) ==
  /\ restarting' = IF pages[i].app \in ready THEN [on |-> TRUE, at |-> i] ELSE restarting
  /\ RequestMissing(pages[i].app, FALSE)
Ended(i) == pages[i].proc \in {"none", "dead"} /\ pages[i].uuid # QrPage

\* The page is the one of the last iteration: its process is restarted when it has ended,
\* and the next page's may be continued, three seconds before it is shown.
KeepPage ==
  /\ ShowsWidgets /\ pages # <<>>
  /\ shown' = last /\ last \in Shows
  /\ IF Ended(last) THEN RestartWidget(last) ELSE UNCHANGED <<restarting, throttled, fetching, wevents>>
  /\ \/ UNCHANGED pages
     \/ /\ Rotating /\ pages[NextPage(last)].proc = "stopped"
        /\ pages' = SetProc(NextPage(last), "running")
  /\ UNCHANGED <<files, last, frozen, screen, home, flags, marked, reload, patch, print, split, requested>>

\* Another page: it is continued, all others are stopped, or killed when their app was
\* replaced while they were shown.  Then the hourly check may find a newer version.
Suspended(i, shows) ==
  IF pages[i].app \in marked /\ \A j \in 1..(i - 1) : pages[j].app = pages[i].app => j = shows
  THEN "none"
  ELSE IF pages[i].proc = "running" THEN "stopped" ELSE pages[i].proc
Resumed(i)   == IF pages[i].proc = "stopped" THEN "running" ELSE pages[i].proc

\* check_page_widget_updates, after the restart of a process that has ended.
UpdateFound(i) ==
  /\ WidgetEvent /\ pages[i].uuid # QrPage
  /\ Ended(i) => pages[i].app \in apps \cup throttled
  /\ restarting' = IF Ended(i) /\ pages[i].app \in ready THEN [on |-> TRUE, at |-> i] ELSE restarting
  /\ Fetching({pages[i].app}, TRUE)
  /\ UNCHANGED throttled

ChangePage ==
  /\ ShowsWidgets /\ pages # <<>>
  /\ \E i \in Shows \ {last} :
       /\ shown' = i /\ last' = i
       /\ pages' = [j \in DOMAIN pages |->
            [pages[j] EXCEPT !.proc = IF j = i THEN Resumed(j) ELSE Suspended(j, i)]]
       /\ marked' = marked \ {pages[j].app : j \in DOMAIN pages \ {i}}
       /\ \/ UpdateFound(i)
          \/ IF Ended(i) THEN RestartWidget(i) ELSE UNCHANGED <<restarting, throttled, fetching, wevents>>
  /\ UNCHANGED <<files, frozen, screen, home, flags, reload, patch, print, split, requested>>

\* Popen has returned: what the entry refers to by now is replaced.  An entry that has left
\* the list gets it too, and nobody ends the process.  Or it has failed, which leaves the
\* entry as it is.
Started(i) ==
  \/ /\ pages' = IF i \in DOMAIN pages THEN SetProc(i, "running") ELSE pages
     /\ UNCHANGED wevents
  \/ WidgetEvent /\ UNCHANGED pages

Restarted ==
  /\ restarting.on
  /\ restarting' = AtRest
  /\ Started(restarting.at)
  /\ UNCHANGED <<files, display, flags, downloads, reload, patch, print, split, requested>>
--------------------------------------------------------------------------------
\* Buttons.
Turn ==
  /\ screen = "widget" /\ pages # <<>>
  /\ \E i \in DOMAIN pages : /\ IsContent(i) \/ (i = Len(pages) /\ \A j \in DOMAIN pages : ~IsContent(j))
                             /\ shown' = i
  /\ UNCHANGED <<pages, frozen, screen, marked>>

Freeze ==
  /\ screen = "widget"
  /\ frozen' = ~frozen
  /\ UNCHANGED <<pages, shown, screen, marked>>

\* flush_deferred_widget_processes_on_leave_widget_mode.
LeaveWidgets ==
  /\ screen = "widget" /\ home = "menu"
  /\ screen' = "menu"
  /\ pages' = [i \in DOMAIN pages |-> IF pages[i].app \in marked THEN [pages[i] EXCEPT !.proc = "none"]
                                      ELSE pages[i]]
  /\ marked' = {}
  /\ UNCHANGED <<shown, frozen>>

EnterWidgets ==
  /\ screen = "menu"
  /\ screen' = "widget"
  /\ UNCHANGED <<pages, shown, frozen, marked>>

Press ==
  /\ AtTop /\ WidgetEvent
  /\ Turn \/ Freeze \/ LeaveWidgets \/ EnterWidgets
  /\ UNCHANGED <<files, last, home, flags, fetching, throttled, threads>>

\* A game that is started takes the place of the widgets.  When it exits, and on a
\* Pixelboard when it is left, a hard reload follows; from the overlay only the menu.
EnterGame ==
  /\ AtTop /\ ~reloadConf /\ ~reloadPages /\ WidgetEvent
  /\ screen' = "game"
  /\ Terminate
  /\ UNCHANGED <<files, shown, last, frozen, home, flags, throttled, marked, reload, print, split, requested>>

GameExits ==
  /\ AtTop /\ screen = "game" /\ ~reloadConf
  /\ \/ reloadConf' = TRUE /\ UNCHANGED screen
     \/ home = "menu" /\ screen' = "menu" /\ UNCHANGED reloadConf
     \/ home = "widget" /\ screen' = "widget" /\ reloadConf' = TRUE
  /\ UNCHANGED <<files, pages, shown, last, frozen, home, reloadPages, downloads, threads, wevents>>

ProcessDies(i) ==
  /\ WidgetEvent
  /\ pages[i].proc = "running"
  /\ pages' = SetProc(i, "dead")
  /\ UNCHANGED <<files, display, flags, downloads, threads>>
--------------------------------------------------------------------------------
\* A snapshot of pages c.  From the bridge: it is applied if its pages_updated_at is newer
\* or its content is, and written if its content is; the first one without pages_updated_at
\* is written, and applied if the order of the pages is another.  From others the content
\* decides.
ContentOrder == SelectSeq(Uuids(pages), LAMBDA u : u # QrPage)
Applies(c, newer) ==
  \/ newer
  \/ IF print.bridge = {} THEN ContentOrder # Uuids(c) ELSE c \notin print.bridge

\* What is written is what is applied, or both are left.
Taken(c, writes, applies) ==
  /\ patch' = IF writes \/ applies
              THEN [NoPatch EXCEPT !.pc = IF writes THEN "write" ELSE "check", !.new = c, !.applies = applies]
              ELSE NoPatch
  /\ split' = IF applies THEN ~writes /\ c # conf ELSE split \/ (writes /\ c # conf)

BridgeSnapshot(c) ==
  /\ patch.pc = "idle" /\ WidgetEvent
  /\ \E newer \in BOOLEAN : Taken(c, c \notin print.bridge, Applies(c, newer))
  /\ print' = [print EXCEPT !.bridge = {c}]
  /\ UNCHANGED <<files, pages, display, flags, downloads, reload, restarting, requested>>

OtherSnapshot(c) ==
  /\ patch.pc = "idle" /\ WidgetEvent
  /\ Taken(c, c \notin print.other, c \notin print.other)
  /\ print' = [print EXCEPT !.other = {c}]
  /\ UNCHANGED <<files, pages, display, flags, downloads, reload, restarting, requested>>

\* set_pages, without a reload; try_soft_apply_remote_supabase_pages may follow.
WritePages ==
  /\ patch.pc = "write"
  /\ conf' = patch.new
  /\ patch' = IF patch.applies THEN [patch EXCEPT !.pc = "check"] ELSE NoPatch
  /\ UNCHANGED <<apps, ready, pages, display, flags, downloads, reload, restarting, print, split, requested, wevents>>

\* The pages a soft apply is for: the same, in the same order.
\* Bug: it is enough that the page which is shown is still one of them.
SamePages_AsShown == \E i \in DOMAIN patch.new : patch.new[i].uuid = pages[shown].uuid

SamePages == Uuids(pages) = Append(Uuids(patch.new), QrPage)

\* The state of the screen, the list and the index are each read once.
CheckPatch ==
  /\ patch.pc = "check"
  /\ IF screen = "widget" /\ shown \in DOMAIN pages /\ SamePages
     THEN /\ patch' = [patch EXCEPT !.pc = "page", !.at = 1, !.active = shown, !.gone = FALSE]
          /\ UNCHANGED reloadPages
     ELSE /\ patch' = NoPatch
          /\ reloadPages' = TRUE
  /\ UNCHANGED <<files, pages, display, reloadConf, downloads, reload, restarting, print, split, requested, wevents>>

\* A page: what can be assigned is, and a widget with other fields is killed.  When the
\* list was cleared meanwhile, the loop over it ends, or fails on an entry without widget.
PatchPage ==
  /\ patch.pc = "page"
  /\ IF patch.gone
     THEN patch' = NoPatch /\ (UNCHANGED reloadPages \/ reloadPages' = TRUE) /\ UNCHANGED pages
     ELSE /\ UNCHANGED reloadPages
          /\ IF patch.at > Len(patch.new) THEN patch' = NoPatch /\ UNCHANGED pages
             ELSE LET new == patch.new[patch.at]  e == pages[patch.at] IN
                  IF e.app = new.app /\ e.fields = new.fields
                  THEN /\ pages' = [pages EXCEPT ![patch.at].enabled = new.enabled]
                       /\ patch' = [patch EXCEPT !.at = @ + 1]
                  ELSE /\ pages' = [pages EXCEPT ![patch.at].enabled = new.enabled, ![patch.at].proc = "none"]
                       /\ patch' = [patch EXCEPT !.pc = "set"]
  /\ UNCHANGED <<files, display, reloadConf, downloads, reload, restarting, print, split, requested, wevents>>

\* Then it gets its configuration, and on the page that was shown a new process.
PatchWidget ==
  /\ patch.pc = "set"
  /\ IF patch.gone
     THEN patch' = [patch EXCEPT !.pc = "page"] /\ UNCHANGED <<pages, throttled, fetching, wevents>>
     ELSE LET new == patch.new[patch.at] IN
          /\ pages' = [pages EXCEPT ![patch.at].app = new.app, ![patch.at].fields = new.fields]
          /\ IF patch.at = patch.active /\ new.app \in ready
             THEN patch' = [patch EXCEPT !.pc = "start"] /\ UNCHANGED <<throttled, fetching, wevents>>
             ELSE /\ patch' = [patch EXCEPT !.pc = "page", !.at = @ + 1]
                  /\ IF patch.at = patch.active THEN RequestMissing(new.app, FALSE)
                     ELSE UNCHANGED <<throttled, fetching, wevents>>
  /\ UNCHANGED <<files, display, flags, marked, reload, restarting, print, split, requested>>

PatchStarted ==
  /\ patch.pc = "start"
  /\ patch' = [patch EXCEPT !.pc = "page", !.at = @ + 1]
  /\ Started(IF patch.gone THEN 0 ELSE patch.at)
  /\ UNCHANGED <<files, display, flags, downloads, reload, restarting, print, split, requested>>
--------------------------------------------------------------------------------
ReloadStep(w)  == ReloadTerminates(w) \/ ReloadReads(w) \/ ReloadBuilds(w) \/ ReloadEnds(w)
WidgetLoop     == StartReload \/ NoPages \/ KeepPage \/ ChangePage \/ Restarted
PatchStep      == WritePages \/ CheckPatch \/ PatchPage \/ PatchWidget \/ PatchStarted
FetchStep(a)   == FetchInstalls(a) \/ FetchEnds(a) \/ TellPage(a) \/ KillInactive(a) \/ ThrottleEnds(a)

WidgetNext ==
  \/ WidgetLoop \/ Press \/ EnterGame \/ GameExits
  \/ \E w \in Reloader : ReloadStep(w)
  \/ \E w \in PageRequester : RequestPages(w)
  \/ \E a \in App : FetchStep(a)
  \/ \E i \in DOMAIN pages : ProcessDies(i)
  \/ \E c \in PageConf : BridgeSnapshot(c) \/ OtherSnapshot(c)
  \/ PatchStep

WidgetSpec == WidgetInit /\ [][WidgetNext]_widgetVars

\* Threads go on; a download ends, the throttle ends, and a game ends.
WidgetFairness ==
  /\ WF_widgetVars(WidgetLoop)
  /\ WF_widgetVars(GameExits)
  /\ WF_widgetVars(PatchStep)
  /\ \A w \in Reloader : WF_widgetVars(ReloadStep(w))
  /\ \A a \in App : WF_widgetVars(FetchInstalls(a) \/ FetchEnds(a)) /\ WF_widgetVars(TellPage(a) \/ KillInactive(a))
                     /\ WF_widgetVars(ThrottleEnds(a))
--------------------------------------------------------------------------------
Proc      == {"none", "unstarted", "running", "stopped", "dead"}
PageEntry == [uuid : Nat, app : App \cup {QrWidget}, fields : Nat, enabled : BOOLEAN, proc : Proc]

\* The list is empty, or has pages of installed apps or of apps to come, and then the
\* default page.
WellFormed ==
  pages # <<>> =>
    /\ pages[Len(pages)].uuid = QrPage /\ pages[Len(pages)].app = QrWidget
    /\ \A i \in 1..(Len(pages) - 1) : pages[i].uuid # QrPage /\ pages[i].app \in App

\* The entries that another thread holds are still there, and none is the default page.
HeldEntries ==
  /\ \A a \in App : fetching[a].at # 0 => fetching[a].at < Len(pages)
  /\ restarting.at # 0 => restarting.at < Len(pages)

WidgetTypeOK ==
  /\ conf \in PageConf /\ split \in BOOLEAN /\ requested \in BOOLEAN
  /\ print \in [bridge : SUBSET PageConf, other : SUBSET PageConf]
  /\ pages \in Seq(PageEntry) /\ WellFormed
  /\ shown \in Nat /\ last \in Nat /\ frozen \in BOOLEAN /\ screen \in {"menu", "widget", "game"}
  /\ home \in {"menu", "widget"}
  /\ reloadConf \in BOOLEAN /\ reloadPages \in BOOLEAN
  /\ apps \subseteq App /\ ready \subseteq App /\ throttled \subseteq App /\ marked \subseteq App
  /\ fetching \in [App -> Fetch] /\ restarting \in [on : BOOLEAN, at : Nat] /\ HeldEntries
  /\ reload \in [Reloader -> [pc : {"idle", "term", "read", "build", "index"}, hard : BOOLEAN,
                             read : PageConf \cup {<<>>}, keep : Nat]]
  /\ \A w \in Reloader : reload[w].pc = "build" => reload[w].read \in PageConf
  /\ patch \in [pc : {"idle", "write", "check", "page", "set", "start"}, new : PageConf \cup {<<>>},
                applies : BOOLEAN, at : Nat, active : Nat, gone : BOOLEAN]
  /\ patch.pc # "idle" => patch.new \in PageConf
  /\ wevents \in 0..MaxWidgetEvent

\* A soft apply writes to the entries of the pages it was compared with, or to none: the
\* list may be cleared and rebuilt by another thread between any two of its steps
\* (try_soft_apply_remote_supabase_pages, widget_lifecycle.py).
PatchInPlace ==
  patch.pc \in {"page", "set", "start"} /\ ~patch.gone =>
    /\ SamePages
    /\ patch.at \in 1..(Len(patch.new) + 1)
    /\ patch.pc # "page" => patch.at <= Len(patch.new)

\* Nobody but a reload takes the process of the default page away, which nothing would
\* restart: not the kill of a replaced app, not a soft apply, not a change of the page, in
\* whatever order they come with reloads to longer and shorter lists (widget_lifecycle.py).
\* One whose start has failed at a reload ("unstarted") has none from the beginning.
DefaultPageKept ==
  pages # <<>> => pages[Len(pages)].enabled /\ pages[Len(pages)].proc # "none"

\* Whatever reloads, patches, kills, deaths and updates happen, the widget of the page that
\* is shown runs in the end, if its app can be launched by then (WidgetState.update,
\* widget_lifecycle.py): it is continued after a reload that stops all, and restarted after
\* a kill and when a download has made its app ready.  An app that is missing and not to be
\* had, or whose venv has failed, is not launched; nor is the default widget restarted.
ShownRuns ==
  <>[](screen = "widget" => /\ shown \in DOMAIN pages
                            /\ \/ pages[shown].proc = "running" \/ pages[shown].uuid = QrPage
                               \/ pages[shown].app \notin ready)

\* When only snapshots change conf.json, ctx.pages has what it says in the end, whether it
\* was patched or reloaded, in every order with the reloads of the main loop
\* (remote_device_config.py, try_soft_apply_remote_supabase_pages).  Two snapshots leave
\* file and list apart until the next that is applied (split): the first of the bridge
\* without pages_updated_at, if only fields have changed, and one of the bridge that returns
\* to its last content after one of another source.
Configured == [i \in 1..(Len(pages) - 1) |-> [uuid |-> pages[i].uuid, app |-> pages[i].app,
                                              fields |-> pages[i].fields, enabled |-> pages[i].enabled]]
SnapshotShown ==
  <>[](pages # <<>> /\ ~split /\ ~requested => Configured = conf)
================================================================================
