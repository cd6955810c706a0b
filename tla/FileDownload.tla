------------------------------ MODULE FileDownload ------------------------------
(***************************************************************************)
(* Game downloads requested over the websocket                             *)
(* (python_websocket/file_operations.py): the progress table, the cancel   *)
(* flags and the keys in flight, with the workers that download, verify    *)
(* and install an archive.                                                 *)
(*                                                                         *)
(* A key is the pair (url, md5) of an archive; the file it is downloaded   *)
(* to is named by the last segment of the url, so two keys may share one   *)
(* file, which the lock around the keys does not know.  A thread is a      *)
(* request and, for a download in the background, the worker the request   *)
(* starts.  Every step between two accesses to the tables or to a file may *)
(* interleave with other threads: only the keys are guarded by a lock.     *)
(***************************************************************************)
EXTENDS Naturals

CONSTANTS
  Downloader,   \* threads that start a download, each with the worker it starts
  Canceler,     \* threads that cancel one
  Download,     \* game ids
  Archive,      \* keys
  File,         \* names of files under downloads/
  FileOf,       \* the name a key's url ends in
  Offered,      \* the keys the backend names for a game
  NoDownload, NoArchive

ASSUME DownloadAssumption ==
  /\ Downloader \cap Canceler = {}
  /\ Offered \in [Download -> SUBSET Archive]
  /\ NoDownload \notin Download
  /\ NoArchive \notin Archive
  /\ FileOf \in [Archive -> File]
  /\ {"absent", "partial"} \cap Archive = {}

VARIABLES
  progress,   \* DOWNLOAD_PROGRESS: the status of a game's entry, "none" without one
  canceling,  \* _DOWNLOAD_CANCEL_REQUESTED
  inFlight,   \* _DOWNLOAD_KEYS_IN_FLIGHT
  onDisk,     \* what a file holds; a key stands for the whole archive of that key, and
              \* "partial" for anything else
  linked,     \* receiving threads whose open file is still the one under its name
  mixed,      \* history: the keys under which others have opened the file of a thread
              \* since it opened it, or still wrote to it at that moment
  job         \* what a thread does, for which game and key, and whether the bytes a
              \* worker has received and is about to verify match the md5

DownloadThread == Downloader \cup Canceler

tables == <<progress, canceling, inFlight>>
diskVars   == <<onDisk, linked, mixed>>
dvars  == <<tables, diskVars, job>>

ActiveStatus   == {"pending", "initializing", "downloading", "extracting"}
TerminalStatus == {"error", "canceled", "completed"}
Content        == {"absent", "partial"} \cup Archive
JobKind        == {"by id", "with url", "sync", "cancel", "none"}
JobLabel ==
  {"idle", "reserve first", "discard", "pending", "start", "fetch", "reserve", "connect",
   "receive", "verify", "extract", "finish", "cleanup, then release", "release, then cleanup",
   "cleanup", "release", "unflag", "cancel check", "cancel mark"}
Job == [pc : JobLabel, kind : JobKind, game : Download \cup {NoDownload},
        key : Archive \cup {NoArchive}, ok : BOOLEAN]
JobFor(label, kind, g, k) == [pc |-> label, kind |-> kind, game |-> g, key |-> k, ok |-> FALSE]
IdleJob == JobFor("idle", "none", NoDownload, NoArchive)
--------------------------------------------------------------------------------
DownloadInit ==
  /\ progress = [g \in Download |-> "none"]
  /\ canceling = {} /\ inFlight = {}
  /\ onDisk = [f \in File |-> "absent"]
  /\ linked = {} /\ mixed = [t \in DownloadThread |-> {}]
  /\ job = [t \in DownloadThread |-> IdleJob]

IsActive(g) == progress[g] \in ActiveStatus

JobGoto(t, label) == job' = [job EXCEPT ![t].pc = label, ![t].ok = FALSE]
JobDone(t)        == job' = [job EXCEPT ![t] = IdleJob]
JobAt(t, label)   == job[t].pc = label
IsWorker(t)       == job[t].kind \in {"by id", "with url"}

\* _set_download_progress; the synchronous download_app reports no progress.
Report(t, status) ==
  progress' = IF IsWorker(t) THEN [progress EXCEPT ![job[t].game] = status] ELSE progress

FileOfJob(t) == FileOf[job[t].key]
HasOpened(t) == job[t].pc \in {"receive", "verify", "extract"}
Writing(f)   == {t \in linked : FileOfJob(t) = f}

\* open(..., "wb") truncates a file that others may have open, or have verified.
OpenFile(t) ==
  /\ onDisk' = [onDisk EXCEPT ![FileOfJob(t)] = "partial"]
  /\ linked' = linked \cup {t}
  /\ mixed' = [u \in DownloadThread |->
                 IF u = t THEN {job[w].key : w \in Writing(FileOfJob(t))}
                 ELSE IF HasOpened(u) /\ FileOfJob(u) = FileOfJob(t)
                 THEN mixed[u] \cup {job[t].key}
                 ELSE mixed[u]]

\* The last bytes are written.  They are lost with a file that was removed meanwhile; in
\* one that others have opened too, they may come before, between or after theirs.
WriteFile(t, ok) ==
  /\ IF t \notin linked THEN UNCHANGED onDisk
     ELSE \E content \in {IF ok THEN job[t].key ELSE "partial"}
                         \cup (IF mixed[t] = {} THEN {} ELSE {"partial", onDisk[FileOfJob(t)]}) :
            onDisk' = [onDisk EXCEPT ![FileOfJob(t)] = content]
  /\ linked' = linked \ {t}
  /\ UNCHANGED mixed

\* A thread that is through with its file, if it has opened one.
CloseFile(t) ==
  /\ linked' = linked \ {t}
  /\ mixed' = [mixed EXCEPT ![t] = {}]
  /\ UNCHANGED onDisk

\* The name is removed: who still writes under it writes to no file any more.
RemoveFile(t) ==
  /\ onDisk' = [onDisk EXCEPT ![FileOfJob(t)] = "absent"]
  /\ linked' = linked \ Writing(FileOfJob(t))
  /\ mixed' = [mixed EXCEPT ![t] = {}]

\* _mark_download_canceled: the entry, and in a step of its own (Unflag) the flag.
MarkCanceled(t) ==
  /\ progress' = [progress EXCEPT ![job[t].game] = "canceled"]
  /\ JobGoto(t, "unflag")
  /\ CloseFile(t)
  /\ UNCHANGED <<canceling, inFlight>>

\* Where a worker that holds its key goes when it returns, and where it goes when
\* an exception is raised: the worker by id releases the key in an inner finally,
\* before its except clause removes the file; the other worker does the reverse.
AfterRaise(t) ==
  CASE job[t].kind = "by id"    -> "release, then cleanup"
    [] job[t].kind = "with url" -> "cleanup, then release"
    [] OTHER                    -> "release"
--------------------------------------------------------------------------------
\* start_game_download_async: the check, the discard of an old cancel flag and the
\* entry are three steps; the last one starts the worker.
StartById(t, g) ==
  /\ JobAt(t, "idle") /\ ~IsActive(g)
  /\ job' = [job EXCEPT ![t] = JobFor("discard", "by id", g, NoArchive)]
  /\ UNCHANGED <<tables, diskVars>>

\* start_game_download_async_with_url: between the two, the key is reserved.
StartWithUrl(t, g, k) ==
  /\ JobAt(t, "idle") /\ ~IsActive(g)
  /\ job' = [job EXCEPT ![t] = JobFor("reserve first", "with url", g, k)]
  /\ UNCHANGED <<tables, diskVars>>

ReserveFirst(t) ==
  /\ JobAt(t, "reserve first")
  /\ IF job[t].key \in inFlight
     THEN JobDone(t) /\ UNCHANGED inFlight
     ELSE inFlight' = inFlight \cup {job[t].key} /\ JobGoto(t, "discard")
  /\ UNCHANGED <<progress, canceling, diskVars>>

DiscardFlag(t) ==
  /\ JobAt(t, "discard")
  /\ canceling' = canceling \ {job[t].game}
  /\ JobGoto(t, "pending")
  /\ UNCHANGED <<progress, inFlight, diskVars>>

StartWorker(t) ==
  /\ JobAt(t, "pending")
  /\ Report(t, "pending")
  /\ JobGoto(t, "start")
  /\ UNCHANGED <<canceling, inFlight, diskVars>>

\* The synchronous download_app.
SyncDownload(t, g, k) ==
  /\ JobAt(t, "idle")
  /\ k \notin inFlight
  /\ inFlight' = inFlight \cup {k}
  /\ job' = [job EXCEPT ![t] = JobFor("fetch", "sync", g, k)]
  /\ UNCHANGED <<progress, canceling, diskVars>>
--------------------------------------------------------------------------------
\* A cancel flag stops a worker where it looks at the flag.
Canceled(t) == IsWorker(t) /\ job[t].game \in canceling

\* The worker returns: by id without a key, from inside its key, or with url.
LeaveJob(t) == IF job[t].key = NoArchive THEN JobDone(t) ELSE JobGoto(t, "release")

LeaveCanceled_Silent(t) == JobGoto(t, "unflag") /\ CloseFile(t) /\ UNCHANGED tables

LeaveCanceled(t) == MarkCanceled(t)

\* By now the flag may be one that a later cancel has raised for a new download.
Unflag(t) ==
  /\ JobAt(t, "unflag")
  /\ canceling' = canceling \ {job[t].game}
  /\ LeaveJob(t)
  /\ UNCHANGED <<progress, inFlight, diskVars>>

\* An error is reported and the worker returns.
FailJob(t) ==
  /\ Report(t, "error")
  /\ LeaveJob(t)
  /\ UNCHANGED <<canceling, inFlight>>

WorkerStart(t) ==
  /\ JobAt(t, "start")
  /\ \/ Canceled(t) /\ LeaveCanceled(t)
     \/ /\ ~Canceled(t)
        /\ Report(t, "initializing")
        /\ JobGoto(t, "fetch")
        /\ UNCHANGED <<canceling, inFlight, diskVars>>

\* _fetch_game_download_info: an error, other metadata than requested, or the key.
FetchInfo(t) ==
  /\ JobAt(t, "fetch")
  /\ \/ FailJob(t) /\ UNCHANGED diskVars
     \/ /\ job[t].kind = "by id"
        /\ \E k \in Offered[job[t].game] :
             job' = [job EXCEPT ![t].pc = "reserve", ![t].key = k]
        /\ UNCHANGED <<tables, diskVars>>
     \/ /\ job[t].kind # "by id"
        /\ job[t].key \in Offered[job[t].game]
        /\ JobGoto(t, "connect")
        /\ UNCHANGED <<tables, diskVars>>

\* The worker by id takes its key; a key in flight is reported as the game's error,
\* even when the download in flight is one of the same game.
ReserveInWorker_NoCheck(t) ==
  /\ JobAt(t, "reserve")
  /\ inFlight' = inFlight \cup {job[t].key}
  /\ JobGoto(t, "connect")
  /\ UNCHANGED <<progress, canceling, diskVars>>

ReserveInWorker(t) ==
  /\ JobAt(t, "reserve")
  /\ IF job[t].key \in inFlight
     THEN /\ Report(t, "error")
          /\ JobDone(t)
          /\ UNCHANGED <<canceling, inFlight>>
     ELSE /\ inFlight' = inFlight \cup {job[t].key}
          /\ JobGoto(t, "connect")
          /\ UNCHANGED <<progress, canceling>>
  /\ UNCHANGED diskVars

\* Only the worker by id looks at the cancel flag here.  With the status of the
\* answer known, the file is opened, which truncates it.
Connect(t) ==
  /\ JobAt(t, "connect")
  /\ \/ job[t].kind = "by id" /\ Canceled(t) /\ LeaveCanceled(t)
     \/ /\ ~(job[t].kind = "by id" /\ Canceled(t))
        /\ \/ FailJob(t) /\ UNCHANGED diskVars
           \/ /\ Report(t, "downloading")
              /\ OpenFile(t)
              /\ JobGoto(t, "receive")
              /\ UNCHANGED <<canceling, inFlight>>

\* The rest of the stream, with the cancel flag looked at in every chunk; progress is
\* reported when the length is known.  wget of download_app may fail, which leaves what
\* it has written so far.
Receive(t) ==
  /\ JobAt(t, "receive")
  /\ \/ Canceled(t) /\ LeaveCanceled(t)
     \/ /\ ~Canceled(t)
        /\ \E ok \in BOOLEAN :
             /\ job' = [job EXCEPT ![t].pc = "verify", ![t].ok = ok /\ IsWorker(t)]
             /\ WriteFile(t, ok)
        /\ Report(t, "downloading") \/ UNCHANGED progress
        /\ UNCHANGED <<canceling, inFlight>>
     \/ ~IsWorker(t) /\ FailJob(t) /\ CloseFile(t)
--------------------------------------------------------------------------------
\* The workers compare the md5 of what they received, download_app that of the file.
Verified(t) == IF IsWorker(t) THEN job[t].ok ELSE onDisk[FileOfJob(t)] = job[t].key

Verify(t) ==
  /\ JobAt(t, "verify")
  /\ \/ Canceled(t) /\ LeaveCanceled(t)
     \/ /\ ~Canceled(t)
        /\ IF Verified(t)
           THEN JobGoto(t, "extract") /\ UNCHANGED <<tables, diskVars>>
           ELSE FailJob(t) /\ RemoveFile(t)

\* install_app_tarball fails without its file, may fail with another than the verified
\* one and does not check it again; the file is removed in any case.
Extract(t) ==
  /\ JobAt(t, "extract")
  /\ \/ Canceled(t) /\ LeaveCanceled(t)
     \/ /\ ~Canceled(t)
        /\ \/ FailJob(t)
           \/ /\ onDisk[FileOfJob(t)] # "absent"
              /\ JobGoto(t, "finish")
              /\ UNCHANGED tables
        /\ RemoveFile(t)

\* write_app_metadata and ensure_app_venv.
FinishInstall(t) ==
  /\ JobAt(t, "finish")
  /\ \/ FailJob(t)
     \/ /\ Report(t, "completed")
        /\ LeaveJob(t)
        /\ UNCHANGED <<canceling, inFlight>>
  /\ UNCHANGED diskVars

\* An exception once the file is known; an earlier one has the effect of Fail.
RaiseInJob(t) ==
  /\ job[t].pc \in {"connect", "receive", "verify", "extract", "finish"}
  /\ JobGoto(t, AfterRaise(t))
  /\ CloseFile(t)
  /\ UNCHANGED tables

ReleaseKey(t) ==
  /\ job[t].pc \in {"release", "release, then cleanup"}
  /\ inFlight' = inFlight \ {job[t].key}
  /\ IF JobAt(t, "release") THEN JobDone(t) ELSE JobGoto(t, "cleanup")
  /\ UNCHANGED <<progress, canceling, diskVars>>

\* The except clause: the file is removed and the error reported.
Cleanup_Silent(t) ==
  /\ job[t].pc \in {"cleanup", "cleanup, then release"}
  /\ RemoveFile(t)
  /\ IF JobAt(t, "cleanup") THEN JobDone(t) ELSE JobGoto(t, "release")
  /\ UNCHANGED tables

Cleanup(t) ==
  /\ job[t].pc \in {"cleanup", "cleanup, then release"}
  /\ RemoveFile(t)
  /\ Report(t, "error")
  /\ IF JobAt(t, "cleanup") THEN JobDone(t) ELSE JobGoto(t, "release")
  /\ UNCHANGED <<canceling, inFlight>>
--------------------------------------------------------------------------------
\* cancel_game_download: the flag, the check and the two of the marking are steps.
CancelDownload(t, g) ==
  /\ JobAt(t, "idle")
  /\ canceling' = canceling \cup {g}
  /\ job' = [job EXCEPT ![t] = JobFor("cancel check", "cancel", g, NoArchive)]
  /\ UNCHANGED <<progress, inFlight, diskVars>>

CancelCheck(t) ==
  /\ JobAt(t, "cancel check")
  /\ IF IsActive(job[t].game) THEN JobDone(t) ELSE JobGoto(t, "cancel mark")
  /\ UNCHANGED <<tables, diskVars>>

CancelMark(t) ==
  /\ JobAt(t, "cancel mark")
  /\ MarkCanceled(t)

\* remove_directory of the game's folder drops its entry, whoever works on it.
RemoveDirectory(g) ==
  /\ progress[g] # "none"
  /\ progress' = [progress EXCEPT ![g] = "none"]
  /\ UNCHANGED <<canceling, inFlight, diskVars, job>>
--------------------------------------------------------------------------------
DownloadRequest(t) ==
  \/ \E g \in Download : StartById(t, g)
  \/ \E g \in Download, k \in Archive : StartWithUrl(t, g, k) \/ SyncDownload(t, g, k)

DownloadStep(t) ==
  \/ ReserveFirst(t) \/ DiscardFlag(t) \/ StartWorker(t) \/ CancelCheck(t) \/ CancelMark(t) \/ Unflag(t)
  \/ WorkerStart(t) \/ FetchInfo(t) \/ ReserveInWorker(t) \/ Connect(t) \/ Receive(t)
  \/ Verify(t) \/ Extract(t) \/ FinishInstall(t) \/ RaiseInJob(t) \/ ReleaseKey(t) \/ Cleanup(t)

DownloadNext ==
  \/ \E t \in Downloader : DownloadRequest(t)
  \/ \E t \in Canceler, g \in Download : CancelDownload(t, g)
  \/ \E t \in DownloadThread : DownloadStep(t)
  \/ \E g \in Download : RemoveDirectory(g)

DownloadSpec == DownloadInit /\ [][DownloadNext]_dvars

\* A thread goes on until its call returns; requests come as they like.
DownloadFairness == \A t \in DownloadThread : WF_dvars(DownloadStep(t))
--------------------------------------------------------------------------------
DownloadTypeOK ==
  /\ progress \in [Download -> ActiveStatus \cup TerminalStatus \cup {"none"}]
  /\ canceling \subseteq Download
  /\ inFlight \subseteq Archive
  /\ onDisk \in [File -> Content]
  /\ linked \subseteq DownloadThread
  /\ mixed \in [DownloadThread -> SUBSET Archive]
  /\ job \in [DownloadThread -> Job]

\* A game shown as being downloaded has a thread that still has to report how the
\* download ended; otherwise a later request would be refused for ever.
Reporting == {"start", "fetch", "reserve", "connect", "receive", "verify", "extract", "finish",
              "cleanup, then release", "release, then cleanup", "cleanup"}

ReportsOn(t, g) == IsWorker(t) /\ job[t].game = g /\ job[t].pc \in Reporting

ActiveHasWorker ==
  \A g \in Download : IsActive(g) => \E t \in DownloadThread : ReportsOn(t, g)

\* What a worker is about to extract is the whole archive it has verified, or, after
\* the clean-up of a worker that had its key before, no file at all; never one that a
\* thread with the same key has opened for writing in between.  The keys do not keep
\* apart two archives whose urls end in the same name: a thread whose file was opened
\* under another key may extract anything.
VerifiedOnDisk ==
  \A t \in DownloadThread :
    JobAt(t, "extract") /\ mixed[t] \subseteq {job[t].key}
      => onDisk[FileOfJob(t)] \in {job[t].key, "absent"}

\* A download that is shown as active is shown to have ended some time, even when the
\* starts, cancels and removals of other threads rewrite the entry of the game.
DownloadEnds == \A g \in Download : []<>~IsActive(g)
================================================================================
