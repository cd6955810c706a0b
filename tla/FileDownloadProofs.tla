--------------------------- MODULE FileDownloadProofs --------------------------
(***************************************************************************)
(* Proofs about FileDownload for every set of threads, games and archives. *)
(***************************************************************************)
EXTENDS FileDownload, TLAPS

\* Labels at which a job has its key, and at which a key may still be missing.
Keyed == {"reserve first", "reserve", "connect", "receive", "verify", "extract", "finish",
          "cleanup, then release", "release, then cleanup", "cleanup", "release"}
Early == {"discard", "pending", "start", "fetch"}

\* Which kinds of jobs are where, and which of them have a key.
JobShape(j) ==
  /\ j.pc \in Keyed \/ j.kind \in {"with url", "sync"} => j.key \in Archive
  /\ j.pc \in {"discard", "pending", "start"} => j.kind \in {"by id", "with url"}
  /\ j.pc = "reserve first" => j.kind = "with url"
  /\ j.pc = "fetch" => j.kind \in {"by id", "with url", "sync"}
  /\ j.pc \in Early /\ j.kind = "by id" => j.key = NoArchive
  /\ j.pc \in {"idle", "cancel check", "cancel mark"} => j.key = NoArchive
  /\ j.kind \in {"by id", "with url", "cancel"} => j.game \in Download
  /\ j.pc \in {"cancel check", "cancel mark"} => j.kind = "cancel"

JobShapes == \A t \in DownloadThread : JobShape(job[t])

\* A thread holds its key from the reservation to the release.
HoldsKey(t) == job[t].key # NoArchive /\ job[t].pc \notin {"reserve first", "reserve", "cleanup"}

\* A key that is held is in flight, and one thread holds it.
KeysHeld ==
  /\ \A t \in DownloadThread : HoldsKey(t) => job[t].key \in inFlight
  /\ \A t, u \in DownloadThread :
       HoldsKey(t) /\ HoldsKey(u) /\ job[t].key = job[u].key => t = u

\* A thread that knows, or will find out, that it has received what the md5 says.
HasReceived(t) == (JobAt(t, "verify") /\ IsWorker(t) /\ job[t].ok) \/ JobAt(t, "extract")

Unmixed(t) == HasOpened(t) /\ mixed[t] = {}

\* The keys keep apart the threads of one key: a file that is disturbed is disturbed under
\* another key.  An undisturbed one is the thread's own, or was removed.
FilesKept ==
  /\ \A t \in linked : JobAt(t, "receive")
  /\ \A t \in DownloadThread : HasOpened(t) => job[t].key \notin mixed[t]
  /\ \A t \in DownloadThread : \A u \in linked \ {t} : Unmixed(t) => FileOfJob(u) # FileOfJob(t)
  /\ \A t \in DownloadThread \ linked :
       Unmixed(t) /\ JobAt(t, "receive") => onDisk[FileOfJob(t)] = "absent"
  /\ \A t \in DownloadThread :
       Unmixed(t) /\ HasReceived(t) => onDisk[FileOfJob(t)] \in {job[t].key, "absent"}

\* What is inductive.
DownloadInv ==
  DownloadTypeOK /\ JobShapes /\ KeysHeld /\ FilesKept /\ ActiveHasWorker

LEMMA DownloadInvInit == DownloadInit => DownloadInv
<1> SUFFICES ASSUME DownloadInit PROVE DownloadInv
  OBVIOUS
<1> USE DownloadAssumption DEF DownloadInit, IdleJob, JobFor
<1>1. DownloadTypeOK
  <2>1. IdleJob \in Job
    BY DEF Job, JobLabel, JobKind
  <2>2. QED
    BY <2>1 DEF DownloadTypeOK, Content
<1>2. JobShapes
  BY DEF JobShapes, JobShape, Keyed, Early
<1>3. KeysHeld
  BY DEF KeysHeld, HoldsKey
<1>4. FilesKept
  BY DEF FilesKept, Unmixed, HasOpened
<1>5. ActiveHasWorker
  BY DEF ActiveHasWorker, IsActive, ActiveStatus
<1>6. QED
  BY <1>1, <1>2, <1>3, <1>4, <1>5 DEF DownloadInv

\* What a thread does next, and that the others stay where they are.
LEMMA JobGoes ==
  ASSUME DownloadTypeOK, NEW t \in DownloadThread
  PROVE  /\ \A label \in JobLabel : JobGoto(t, label) =>
              /\ job' \in [DownloadThread -> Job]
              /\ job'[t] = [job[t] EXCEPT !.pc = label, !.ok = FALSE]
              /\ \A u \in DownloadThread \ {t} : job'[u] = job[u]
         /\ JobDone(t) =>
              /\ job' \in [DownloadThread -> Job]
              /\ job'[t] = IdleJob
              /\ \A u \in DownloadThread \ {t} : job'[u] = job[u]
         /\ \A j \in Job : job' = [job EXCEPT ![t] = j] =>
              /\ job' \in [DownloadThread -> Job]
              /\ job'[t] = j
              /\ \A u \in DownloadThread \ {t} : job'[u] = job[u]
<1> USE DEF DownloadTypeOK
<1>1. IdleJob \in Job
  BY DEF IdleJob, JobFor, Job, JobLabel, JobKind
<1>2. \A label \in JobLabel : [job[t] EXCEPT !.pc = label, !.ok = FALSE] \in Job
  BY DEF Job
<1>3. QED
  BY <1>1, <1>2 DEF JobGoto, JobDone

\* The new jobs of requests.
LEMMA NewJobs ==
  \A label \in JobLabel, kind \in JobKind, g \in Download \cup {NoDownload},
     k \in Archive \cup {NoArchive} :
    JobFor(label, kind, g, k) \in Job
BY DEF JobFor, Job


--------------------------------------------------------------------------------
(***************************************************************************)
(* What a step of a thread does, as far as the invariants can tell.        *)
(***************************************************************************)
OthersStay(t) ==
  job' \in [DownloadThread -> Job] /\ \A u \in DownloadThread \ {t} : job'[u] = job[u]

\* The key is left alone, reserved or released.
KeyEffect(t) ==
  \/ inFlight' = inFlight /\ (HoldsKey(t)' => HoldsKey(t) /\ job'[t].key = job[t].key)
  \/ job'[t].key \in Archive \ inFlight /\ inFlight' = inFlight \cup {job'[t].key}
  \/ HoldsKey(t) /\ ~HoldsKey(t)' /\ inFlight' = inFlight \ {job[t].key}

\* Nothing is reported, by a thread that goes on, or the end, or that it goes on.
ProgressEffect(t) ==
  \/ progress' = progress /\ \A g \in Download : ReportsOn(t, g) => ReportsOn(t, g)'
  \/ job[t].game \in Download /\ \E s \in TerminalStatus :
       progress' = [progress EXCEPT ![job[t].game] = s]
  \/ \E g \in Download, s \in ActiveStatus :
       g = job[t].game /\ ReportsOn(t, g)' /\ progress' = [progress EXCEPT ![g] = s]

\* A file is left alone or closed, verified, removed, opened or written; only a thread that
\* holds its key opens or writes one.
FileEffect(t) ==
  \/ ((diskVars' = diskVars /\ ~HasOpened(t)) \/ CloseFile(t)) /\ ~HasOpened(t)'
  \/ RemoveFile(t) /\ job[t].key \in Archive /\ ~HasOpened(t)'
  \/ /\ HoldsKey(t) /\ job[t].key \in Archive /\ job'[t].key = job[t].key
     /\ \/ /\ job[t].pc = "verify" /\ job'[t].pc = "extract" /\ diskVars' = diskVars
           /\ Unmixed(t) => onDisk[FileOfJob(t)] \in {job[t].key, "absent"}
        \/ job[t].pc = "connect" /\ job'[t].pc = "receive" /\ OpenFile(t)
        \/ job[t].pc = "receive" /\ job'[t].pc = "verify"
             /\ \E ok \in BOOLEAN : (job'[t].ok => ok) /\ WriteFile(t, ok)

StepEffect(t) ==
  /\ OthersStay(t) /\ JobShape(job'[t]) /\ KeyEffect(t) /\ ProgressEffect(t) /\ FileEffect(t)
  /\ canceling' \subseteq Download

\* A worker that returns: it keeps its key until the release.
LEMMA Leaving ==
  ASSUME DownloadTypeOK, JobShapes, NEW t \in DownloadThread, LeaveJob(t),
         job[t].pc \in {"start", "fetch", "connect", "receive", "verify", "extract", "finish",
                        "unflag"}
  PROVE  /\ OthersStay(t) /\ JobShape(job'[t])
         /\ job'[t].pc \in {"idle", "release"}
         /\ HoldsKey(t)' => HoldsKey(t) /\ job'[t].key = job[t].key
<1>1. job[t] \in Job /\ JobShape(job[t])
  BY DEF DownloadTypeOK, JobShapes
<1>2. CASE job[t].key = NoArchive
  <2>1. job'[t] = IdleJob /\ OthersStay(t)
    BY <1>2, JobGoes DEF LeaveJob, OthersStay
  <2>2. QED
    BY <2>1 DEF IdleJob, JobFor, JobShape, Keyed, Early, HoldsKey
<1>3. CASE job[t].key # NoArchive
  <2>1. job'[t] = [job[t] EXCEPT !.pc = "release", !.ok = FALSE] /\ OthersStay(t)
    BY <1>3, JobGoes DEF LeaveJob, OthersStay, JobLabel
  <2>2. /\ job'[t].pc = "release" /\ job'[t].key = job[t].key /\ job'[t].kind = job[t].kind
        /\ job'[t].game = job[t].game
    BY <1>1, <2>1 DEF Job
  <2>3. job[t].key \in Archive
    BY <1>1, <1>3 DEF Job
  <2>4. JobShape(job'[t])
    BY <1>1, <2>2, <2>3 DEF JobShape, Early
  <2>5. QED
    BY <1>3, <2>1, <2>2, <2>4 DEF HoldsKey
<1>4. QED
  BY <1>2, <1>3

LEMMA Failing ==
  ASSUME DownloadTypeOK, JobShapes, NEW t \in DownloadThread, FailJob(t),
         job[t].pc \in {"start", "fetch", "connect", "receive", "verify", "extract", "finish"},
         \/ diskVars' = diskVars /\ ~HasOpened(t)
         \/ CloseFile(t)
         \/ RemoveFile(t) /\ job[t].key \in Archive
  PROVE  StepEffect(t)
<1>1. /\ OthersStay(t) /\ JobShape(job'[t])
      /\ job'[t].pc \in {"idle", "release"}
      /\ HoldsKey(t)' => HoldsKey(t) /\ job'[t].key = job[t].key
  BY Leaving DEF FailJob
<1>2. ProgressEffect(t)
  <2>1. CASE IsWorker(t)
    BY <2>1 DEF FailJob, Report, ProgressEffect, TerminalStatus, IsWorker, JobShapes, JobShape
  <2>2. CASE ~IsWorker(t)
    BY <2>2 DEF FailJob, Report, ProgressEffect, ReportsOn
  <2>3. QED
    BY <2>1, <2>2
<1>3. KeyEffect(t) /\ canceling' \subseteq Download
  BY <1>1 DEF FailJob, KeyEffect, DownloadTypeOK
<1>4. FileEffect(t)
  BY <1>1 DEF FileEffect, HasOpened
<1>5. QED
  BY <1>1, <1>2, <1>3, <1>4 DEF StepEffect

\* A job that goes on to a label.
LEMMA GoingOn ==
  ASSUME DownloadTypeOK, JobShapes, NEW t \in DownloadThread, NEW label \in JobLabel,
         JobGoto(t, label)
  PROVE  /\ OthersStay(t)
         /\ job'[t].pc = label /\ job'[t].key = job[t].key /\ job'[t].kind = job[t].kind
         /\ job'[t].game = job[t].game
         /\ job[t] \in Job /\ JobShape(job[t])
<1>1. job'[t] = [job[t] EXCEPT !.pc = label, !.ok = FALSE] /\ OthersStay(t)
  BY JobGoes DEF OthersStay
<1>2. job[t] \in Job /\ JobShape(job[t])
  BY DEF DownloadTypeOK, JobShapes
<1>3. QED
  BY <1>1, <1>2 DEF Job

\* A download that is marked as canceled: the thread keeps its key.
LEMMA Canceling ==
  ASSUME DownloadTypeOK, JobShapes, NEW t \in DownloadThread, MarkCanceled(t),
         job[t].game \in Download,
         job[t].pc \in {"start", "connect", "receive", "verify", "extract", "cancel mark"}
  PROVE  StepEffect(t)
<1>1. JobGoto(t, "unflag") /\ inFlight' = inFlight /\ CloseFile(t)
        /\ progress' = [progress EXCEPT ![job[t].game] = "canceled"]
        /\ canceling' = canceling
  BY DEF MarkCanceled
<1>2. /\ OthersStay(t)
      /\ job'[t].pc = "unflag" /\ job'[t].key = job[t].key /\ job'[t].kind = job[t].kind
      /\ job'[t].game = job[t].game
      /\ JobShape(job[t])
  BY <1>1, GoingOn DEF JobLabel
<1>3. JobShape(job'[t])
  BY <1>2 DEF JobShape, Early, Keyed
<1>4. HoldsKey(t)' => HoldsKey(t) /\ job'[t].key = job[t].key
  BY <1>2 DEF HoldsKey
<1>5. ProgressEffect(t)
  BY <1>1 DEF ProgressEffect, TerminalStatus
<1>6. KeyEffect(t) /\ FileEffect(t)
  BY <1>1, <1>2, <1>4 DEF KeyEffect, FileEffect, HasOpened
<1>7. QED
  BY <1>1, <1>2, <1>3, <1>5, <1>6 DEF StepEffect, DownloadTypeOK

LEMMA BeingDone ==
  ASSUME DownloadTypeOK, JobShapes, NEW t \in DownloadThread, JobDone(t)
  PROVE  /\ OthersStay(t) /\ JobShape(job'[t])
         /\ job'[t].pc = "idle" /\ ~HoldsKey(t)'
<1>1. job'[t] = IdleJob /\ OthersStay(t)
  BY JobGoes DEF OthersStay
<1>2. QED
  BY <1>1 DEF IdleJob, JobFor, JobShape, HoldsKey, Keyed, Early

LEMMA StepOfThread ==
  ASSUME DownloadTypeOK, JobShapes, FilesKept, NEW t \in DownloadThread, DownloadStep(t)
  PROVE  StepEffect(t)
<1>0. job[t] \in Job /\ JobShape(job[t]) /\ canceling \subseteq Download
  BY DEF DownloadTypeOK, JobShapes
<1> USE DEF JobAt
<1>1. CASE ReserveFirst(t)
  <2>1. job[t].pc = "reserve first" /\ job[t].key \in Archive /\ job[t].kind = "with url"
          /\ progress' = progress /\ diskVars' = diskVars /\ canceling' = canceling
    BY <1>0, <1>1 DEF ReserveFirst, JobShape, Keyed
  <2>2. CASE job[t].key \in inFlight
    <3>1. JobDone(t) /\ inFlight' = inFlight
      BY <1>1, <2>2 DEF ReserveFirst
    <3>2. QED
      BY <1>0, <2>1, <3>1, BeingDone
      DEF StepEffect, KeyEffect, ProgressEffect, FileEffect, HasOpened, ReportsOn, Reporting
  <2>3. CASE job[t].key \notin inFlight
    <3>1. JobGoto(t, "discard") /\ inFlight' = inFlight \cup {job[t].key}
      BY <1>1, <2>3 DEF ReserveFirst
    <3>2. /\ OthersStay(t)
          /\ job'[t].pc = "discard" /\ job'[t].key = job[t].key /\ job'[t].kind = job[t].kind
          /\ job'[t].game = job[t].game
      BY <3>1, GoingOn DEF JobLabel
    <3>3. JobShape(job'[t])
      BY <1>0, <2>1, <3>2 DEF JobShape
    <3>4. QED
      BY <1>0, <2>1, <2>3, <3>1, <3>2, <3>3
      DEF StepEffect, KeyEffect, ProgressEffect, FileEffect, HasOpened, ReportsOn, Reporting
  <2>4. QED
    BY <2>2, <2>3
<1>2. CASE DiscardFlag(t)
  <2>1. job[t].pc = "discard" /\ progress' = progress /\ diskVars' = diskVars /\ inFlight' = inFlight
          /\ canceling' \subseteq Download /\ JobGoto(t, "pending")
    BY <1>0, <1>2 DEF DiscardFlag
  <2>2. /\ OthersStay(t)
        /\ job'[t].pc = "pending" /\ job'[t].key = job[t].key /\ job'[t].kind = job[t].kind
        /\ job'[t].game = job[t].game
    BY <2>1, GoingOn DEF JobLabel
  <2>3. JobShape(job'[t])
    BY <1>0, <2>1, <2>2 DEF JobShape, Early, Keyed
  <2>4. KeyEffect(t) /\ ProgressEffect(t) /\ FileEffect(t)
    BY <2>1, <2>2
    DEF KeyEffect, ProgressEffect, FileEffect, HasOpened, ReportsOn, Reporting, HoldsKey
  <2>5. QED
    BY <2>1, <2>2, <2>3, <2>4 DEF StepEffect
<1>3. CASE StartWorker(t)
  <2>1. job[t].pc = "pending" /\ Report(t, "pending") /\ diskVars' = diskVars /\ inFlight' = inFlight
          /\ canceling' = canceling /\ JobGoto(t, "start")
    BY <1>3 DEF StartWorker
  <2>2. /\ OthersStay(t)
        /\ job'[t].pc = "start" /\ job'[t].key = job[t].key /\ job'[t].kind = job[t].kind
        /\ job'[t].game = job[t].game
    BY <2>1, GoingOn DEF JobLabel
  <2>3. IsWorker(t) /\ IsWorker(t)' /\ job[t].game \in Download
    BY <1>0, <2>1, <2>2 DEF IsWorker, JobShape
  <2>4. ProgressEffect(t)
    BY <2>1, <2>2, <2>3 DEF ProgressEffect, Report, ReportsOn, Reporting, ActiveStatus
  <2>5. JobShape(job'[t])
    BY <1>0, <2>1, <2>2 DEF JobShape, Early, Keyed
  <2>6. KeyEffect(t) /\ FileEffect(t)
    BY <2>1, <2>2 DEF KeyEffect, FileEffect, HasOpened, HoldsKey
  <2>7. QED
    BY <1>0, <2>1, <2>2, <2>4, <2>5, <2>6 DEF StepEffect
<1>4. CASE CancelCheck(t)
  <2>1. job[t].pc = "cancel check" /\ progress' = progress /\ diskVars' = diskVars
          /\ inFlight' = inFlight /\ canceling' = canceling /\ ~HoldsKey(t)
    BY <1>0, <1>4 DEF CancelCheck, tables, JobShape, HoldsKey
  <2>2. CASE JobDone(t)
    BY <1>0, <2>1, <2>2, BeingDone
    DEF StepEffect, KeyEffect, ProgressEffect, FileEffect, HasOpened, ReportsOn, Reporting
  <2>3. CASE JobGoto(t, "cancel mark")
    <3>1. /\ OthersStay(t)
          /\ job'[t].pc = "cancel mark" /\ job'[t].key = job[t].key
          /\ job'[t].kind = job[t].kind /\ job'[t].game = job[t].game
      BY <2>3, GoingOn DEF JobLabel
    <3>2. JobShape(job'[t])
      BY <1>0, <2>1, <3>1 DEF JobShape, Early, Keyed
    <3>3. KeyEffect(t) /\ ProgressEffect(t) /\ FileEffect(t)
      BY <1>0, <2>1, <3>1
      DEF KeyEffect, ProgressEffect, FileEffect, HasOpened, ReportsOn, Reporting, HoldsKey, JobShape
    <3>4. QED
      BY <1>0, <2>1, <3>1, <3>2, <3>3 DEF StepEffect
  <2>4. QED
    BY <1>4, <2>2, <2>3 DEF CancelCheck
<1>5. CASE CancelMark(t)
  BY <1>0, <1>5, Canceling DEF CancelMark, JobShape
<1>6. CASE WorkerStart(t)
  <2>1. CASE Canceled(t) /\ LeaveCanceled(t)
    BY <1>0, <1>6, <2>1, Canceling DEF WorkerStart, LeaveCanceled, Canceled, IsWorker, JobShape
  <2>2. CASE ~Canceled(t)
    <3>1. job[t].pc = "start" /\ Report(t, "initializing") /\ diskVars' = diskVars
            /\ inFlight' = inFlight /\ canceling' = canceling /\ JobGoto(t, "fetch")
      BY <1>6, <2>2 DEF WorkerStart
    <3>2. /\ OthersStay(t)
          /\ job'[t].pc = "fetch" /\ job'[t].key = job[t].key /\ job'[t].kind = job[t].kind
          /\ job'[t].game = job[t].game
      BY <3>1, GoingOn DEF JobLabel
    <3>3. IsWorker(t) /\ IsWorker(t)' /\ job[t].game \in Download
      BY <1>0, <3>1, <3>2 DEF IsWorker, JobShape
    <3>4. ProgressEffect(t)
      BY <3>1, <3>2, <3>3 DEF ProgressEffect, Report, ReportsOn, Reporting, ActiveStatus
    <3>5. JobShape(job'[t])
      BY <1>0, <3>1, <3>2 DEF JobShape, Early, Keyed
    <3>6. KeyEffect(t) /\ FileEffect(t)
      BY <3>1, <3>2 DEF KeyEffect, FileEffect, HasOpened, HoldsKey
    <3>7. QED
      BY <1>0, <3>1, <3>2, <3>4, <3>5, <3>6 DEF StepEffect
  <2>3. QED
    BY <1>6, <2>1, <2>2 DEF WorkerStart
<1>7. CASE FetchInfo(t)
  <2>1. job[t].pc = "fetch" /\ ~HasOpened(t)
    BY <1>7 DEF FetchInfo, HasOpened
  <2>2. CASE FailJob(t) /\ diskVars' = diskVars
    BY <2>1, <2>2, Failing
  <2>3. ASSUME job[t].kind = "by id", NEW k \in Offered[job[t].game],
               job' = [job EXCEPT ![t].pc = "reserve", ![t].key = k],
               UNCHANGED <<tables, diskVars>>
        PROVE  StepEffect(t)
    <3>1. k \in Archive /\ job[t].game \in Download /\ job[t].key = NoArchive
      BY <1>0, <2>1, <2>3, DownloadAssumption DEF JobShape, Early
    <3>2. job' = [job EXCEPT ![t] = [job[t] EXCEPT !.pc = "reserve", !.key = k]]
            /\ [job[t] EXCEPT !.pc = "reserve", !.key = k] \in Job
      BY <1>0, <2>3, <3>1 DEF Job, JobLabel, DownloadTypeOK
    <3>3. /\ OthersStay(t)
          /\ job'[t] = [job[t] EXCEPT !.pc = "reserve", !.key = k]
      BY <3>2, JobGoes DEF OthersStay
    <3>4. /\ job'[t].pc = "reserve" /\ job'[t].key = k /\ job'[t].kind = "by id"
          /\ job'[t].game = job[t].game
      BY <1>0, <2>3, <3>1, <3>3 DEF Job
    <3>5. JobShape(job'[t])
      BY <3>1, <3>4 DEF JobShape, Early
    <3>6. KeyEffect(t) /\ ProgressEffect(t) /\ FileEffect(t) /\ canceling' = canceling
      BY <2>1, <2>3, <3>4
      DEF KeyEffect, ProgressEffect, FileEffect, HasOpened, HoldsKey, tables, ReportsOn, Reporting,
          IsWorker
    <3>7. QED
      BY <1>0, <3>3, <3>5, <3>6 DEF StepEffect
  <2>4. CASE job[t].kind # "by id" /\ JobGoto(t, "connect") /\ UNCHANGED <<tables, diskVars>>
    <3>1. /\ OthersStay(t)
          /\ job'[t].pc = "connect" /\ job'[t].key = job[t].key /\ job'[t].kind = job[t].kind
          /\ job'[t].game = job[t].game
      BY <2>4, GoingOn DEF JobLabel
    <3>2. job[t].key \in Archive
      BY <1>0, <2>1, <2>4 DEF JobShape
    <3>3. JobShape(job'[t])
      BY <1>0, <3>1, <3>2 DEF JobShape, Early
    <3>4. KeyEffect(t) /\ ProgressEffect(t) /\ FileEffect(t) /\ canceling' = canceling
      BY <2>1, <2>4, <3>1
      DEF KeyEffect, ProgressEffect, FileEffect, HasOpened, HoldsKey, tables, ReportsOn, Reporting,
          IsWorker
    <3>5. QED
      BY <1>0, <3>1, <3>3, <3>4 DEF StepEffect
  <2>5. QED
    BY <1>7, <2>2, <2>3, <2>4 DEF FetchInfo
<1>8. CASE ReserveInWorker(t)
  <2>1. job[t].pc = "reserve" /\ job[t].key \in Archive /\ diskVars' = diskVars
    BY <1>0, <1>8 DEF ReserveInWorker, JobShape, Keyed
  <2>2. CASE job[t].key \in inFlight
    <3>1. Report(t, "error") /\ JobDone(t) /\ canceling' = canceling /\ inFlight' = inFlight
      BY <1>8, <2>2 DEF ReserveInWorker
    <3>2. ProgressEffect(t)
      <4>1. CASE IsWorker(t)
        BY <1>0, <3>1, <4>1 DEF Report, ProgressEffect, TerminalStatus, IsWorker, JobShape
      <4>2. CASE ~IsWorker(t)
        BY <3>1, <4>2 DEF Report, ProgressEffect, ReportsOn
      <4>3. QED
        BY <4>1, <4>2
    <3>3. QED
      BY <1>0, <2>1, <3>1, <3>2, BeingDone DEF StepEffect, KeyEffect, FileEffect, HasOpened
  <2>3. CASE job[t].key \notin inFlight
    <3>1. JobGoto(t, "connect") /\ inFlight' = inFlight \cup {job[t].key}
            /\ progress' = progress /\ canceling' = canceling
      BY <1>8, <2>3 DEF ReserveInWorker
    <3>2. /\ OthersStay(t)
          /\ job'[t].pc = "connect" /\ job'[t].key = job[t].key /\ job'[t].kind = job[t].kind
          /\ job'[t].game = job[t].game
      BY <3>1, GoingOn DEF JobLabel
    <3>3. JobShape(job'[t])
      BY <1>0, <2>1, <3>2 DEF JobShape, Early
    <3>4. KeyEffect(t) /\ ProgressEffect(t) /\ FileEffect(t)
      BY <2>1, <2>3, <3>1, <3>2
      DEF KeyEffect, ProgressEffect, FileEffect, HasOpened, ReportsOn, Reporting, IsWorker
    <3>5. QED
      BY <1>0, <3>1, <3>2, <3>3, <3>4 DEF StepEffect
  <2>4. QED
    BY <2>2, <2>3
<1>9. CASE Connect(t)
  <2>1. job[t].pc = "connect" /\ job[t].key \in Archive
    BY <1>0, <1>9 DEF Connect, JobShape, Keyed
  <2>2. CASE Canceled(t) /\ LeaveCanceled(t)
    BY <1>0, <2>1, <2>2, Canceling DEF LeaveCanceled, Canceled, IsWorker, JobShape
  <2>3. CASE FailJob(t) /\ diskVars' = diskVars
    BY <2>1, <2>3, Failing DEF HasOpened
  <2>4. CASE /\ Report(t, "downloading") /\ OpenFile(t) /\ JobGoto(t, "receive")
             /\ UNCHANGED <<canceling, inFlight>>
    <3>1. /\ OthersStay(t)
          /\ job'[t].pc = "receive" /\ job'[t].key = job[t].key /\ job'[t].kind = job[t].kind
          /\ job'[t].game = job[t].game
      BY <2>4, GoingOn DEF JobLabel
    <3>2. HoldsKey(t)
      BY <2>1, DownloadAssumption DEF HoldsKey
    <3>3. JobShape(job'[t])
      BY <1>0, <2>1, <3>1 DEF JobShape, Early
    <3>4. ProgressEffect(t)
      <4>1. CASE IsWorker(t)
        <5>1. \E g \in Download : g = job[t].game /\ ReportsOn(t, g)'
          BY <1>0, <3>1, <4>1 DEF ReportsOn, Reporting, IsWorker, JobShape
        <5>2. QED
          BY <2>4, <4>1, <5>1 DEF Report, ProgressEffect, ActiveStatus
      <4>2. CASE ~IsWorker(t)
        BY <2>4, <4>2 DEF Report, ProgressEffect, ReportsOn
      <4>3. QED
        BY <4>1, <4>2
    <3>5. KeyEffect(t)
      BY <2>4, <3>1, <3>2 DEF KeyEffect
    <3>6. FileEffect(t)
      BY <2>1, <2>4, <3>1, <3>2 DEF FileEffect, HasOpened
    <3>7. QED
      BY <1>0, <2>4, <3>1, <3>3, <3>4, <3>5, <3>6 DEF StepEffect
  <2>5. QED
    BY <1>9, <2>2, <2>3, <2>4 DEF Connect
<1>10. CASE Receive(t)
  <2>1. job[t].pc = "receive" /\ job[t].key \in Archive
    BY <1>0, <1>10 DEF Receive, JobShape, Keyed
  <2>2. CASE Canceled(t) /\ LeaveCanceled(t)
    BY <1>0, <2>1, <2>2, Canceling DEF LeaveCanceled, Canceled, IsWorker, JobShape
  <2>3. ASSUME NEW ok \in BOOLEAN,
               job' = [job EXCEPT ![t].pc = "verify", ![t].ok = ok /\ IsWorker(t)],
               WriteFile(t, ok),
               Report(t, "downloading") \/ UNCHANGED progress,
               UNCHANGED <<canceling, inFlight>>
        PROVE  StepEffect(t)
    <3>1. job' = [job EXCEPT ![t] = [job[t] EXCEPT !.pc = "verify", !.ok = ok /\ IsWorker(t)]]
            /\ [job[t] EXCEPT !.pc = "verify", !.ok = ok /\ IsWorker(t)] \in Job
      BY <1>0, <2>3 DEF Job, JobLabel, DownloadTypeOK
    <3>2. OthersStay(t) /\ job'[t] = [job[t] EXCEPT !.pc = "verify", !.ok = ok /\ IsWorker(t)]
      BY <3>1, JobGoes DEF OthersStay
    <3>3. /\ job'[t].pc = "verify" /\ job'[t].key = job[t].key /\ job'[t].kind = job[t].kind
          /\ job'[t].game = job[t].game /\ (job'[t].ok => ok)
      BY <1>0, <3>2 DEF Job
    <3>4. JobShape(job'[t])
      BY <1>0, <2>1, <3>3 DEF JobShape, Early
    <3>5. HoldsKey(t)
      BY <2>1, DownloadAssumption DEF HoldsKey
    <3>6. KeyEffect(t)
      BY <2>3, <3>3, <3>5 DEF KeyEffect
    <3>7. FileEffect(t)
      BY <2>1, <2>3, <3>3, <3>5 DEF FileEffect, HasOpened
    <3>8. ProgressEffect(t)
      <4>1. CASE IsWorker(t) /\ Report(t, "downloading")
        <5>1. \E g \in Download : g = job[t].game /\ ReportsOn(t, g)'
          BY <1>0, <3>3, <4>1 DEF ReportsOn, Reporting, IsWorker, JobShape
        <5>2. QED
          BY <4>1, <5>1 DEF Report, ProgressEffect, ActiveStatus
      <4>2. CASE ~(IsWorker(t) /\ Report(t, "downloading"))
        BY <2>3, <3>3, <4>2 DEF Report, ProgressEffect, ReportsOn, Reporting, IsWorker
      <4>3. QED
        BY <4>1, <4>2
    <3>9. QED
      BY <1>0, <2>3, <3>2, <3>4, <3>6, <3>7, <3>8 DEF StepEffect
  <2>4. CASE FailJob(t) /\ CloseFile(t)
    BY <2>1, <2>4, Failing
  <2>5. QED
    BY <1>10, <2>2, <2>3, <2>4 DEF Receive
<1>11. CASE Verify(t)
  <2>1. job[t].pc = "verify" /\ job[t].key \in Archive
    BY <1>0, <1>11 DEF Verify, JobShape, Keyed
  <2>2. CASE Canceled(t) /\ LeaveCanceled(t)
    BY <1>0, <2>1, <2>2, Canceling DEF LeaveCanceled, Canceled, IsWorker, JobShape
  <2>3. CASE FailJob(t) /\ RemoveFile(t)
    BY <2>1, <2>3, Failing
  <2>4. CASE Verified(t) /\ JobGoto(t, "extract") /\ UNCHANGED <<tables, diskVars>>
    <3>1. /\ OthersStay(t)
          /\ job'[t].pc = "extract" /\ job'[t].key = job[t].key /\ job'[t].kind = job[t].kind
          /\ job'[t].game = job[t].game
      BY <2>4, GoingOn DEF JobLabel
    <3>2. JobShape(job'[t])
      BY <1>0, <2>1, <3>1 DEF JobShape, Early
    <3>3. KeyEffect(t) /\ ProgressEffect(t)
      BY <2>1, <2>4, <3>1
      DEF KeyEffect, ProgressEffect, HoldsKey, tables, ReportsOn, Reporting, IsWorker
    <3>4. Unmixed(t) => onDisk[FileOfJob(t)] \in {job[t].key, "absent"}
      BY <2>1, <2>4 DEF Verified, FilesKept, HasReceived
    <3>5. FileEffect(t)
      BY <2>1, <2>4, <3>1, <3>4, DownloadAssumption DEF FileEffect, HoldsKey
    <3>6. QED
      BY <1>0, <2>4, <3>1, <3>2, <3>3, <3>5 DEF StepEffect, tables
  <2>5. QED
    BY <1>11, <2>2, <2>3, <2>4 DEF Verify
<1>12. CASE Extract(t)
  <2>1. job[t].pc = "extract" /\ job[t].key \in Archive
    BY <1>0, <1>12 DEF Extract, JobShape, Keyed
  <2>2. CASE Canceled(t) /\ LeaveCanceled(t)
    BY <1>0, <2>1, <2>2, Canceling DEF LeaveCanceled, Canceled, IsWorker, JobShape
  <2>3. CASE FailJob(t) /\ RemoveFile(t)
    BY <2>1, <2>3, Failing
  <2>4. CASE JobGoto(t, "finish") /\ UNCHANGED tables /\ RemoveFile(t)
    <3>1. /\ OthersStay(t)
          /\ job'[t].pc = "finish" /\ job'[t].key = job[t].key /\ job'[t].kind = job[t].kind
          /\ job'[t].game = job[t].game
      BY <2>4, GoingOn DEF JobLabel
    <3>2. JobShape(job'[t])
      BY <1>0, <2>1, <3>1 DEF JobShape, Early
    <3>3. KeyEffect(t) /\ ProgressEffect(t)
      BY <2>1, <2>4, <3>1
      DEF KeyEffect, ProgressEffect, HoldsKey, tables, ReportsOn, Reporting, IsWorker
    <3>4. FileEffect(t)
      BY <2>1, <2>4, <3>1 DEF FileEffect, HasOpened
    <3>5. QED
      BY <1>0, <2>4, <3>1, <3>2, <3>3, <3>4 DEF StepEffect, tables
  <2>5. QED
    BY <1>12, <2>2, <2>3, <2>4 DEF Extract
<1>13. CASE FinishInstall(t)
  <2>1. job[t].pc = "finish" /\ job[t].key \in Archive /\ diskVars' = diskVars
    BY <1>0, <1>13 DEF FinishInstall, JobShape, Keyed
  <2>2. CASE FailJob(t)
    BY <2>1, <2>2, Failing DEF HasOpened
  <2>3. CASE Report(t, "completed") /\ LeaveJob(t) /\ UNCHANGED <<canceling, inFlight>>
    <3>1. /\ OthersStay(t) /\ JobShape(job'[t])
          /\ job'[t].pc \in {"idle", "release"}
          /\ HoldsKey(t)' => HoldsKey(t) /\ job'[t].key = job[t].key
      BY <2>1, <2>3, Leaving
    <3>2. ProgressEffect(t)
      <4>1. CASE IsWorker(t)
        BY <1>0, <2>3, <4>1 DEF Report, ProgressEffect, TerminalStatus, IsWorker, JobShape
      <4>2. CASE ~IsWorker(t)
        BY <2>3, <4>2 DEF Report, ProgressEffect, ReportsOn
      <4>3. QED
        BY <4>1, <4>2
    <3>3. QED
      BY <1>0, <2>1, <2>3, <3>1, <3>2 DEF StepEffect, KeyEffect, FileEffect, HasOpened
  <2>4. QED
    BY <1>13, <2>2, <2>3 DEF FinishInstall
<1>14. CASE RaiseInJob(t)
  <2>1. /\ job[t].pc \in {"connect", "receive", "verify", "extract", "finish"}
        /\ job[t].key \in Archive /\ UNCHANGED tables /\ CloseFile(t)
    BY <1>0, <1>14 DEF RaiseInJob, JobShape, Keyed
  <2> DEFINE label == AfterRaise(t)
  <2>2. /\ label \in {"release, then cleanup", "cleanup, then release", "release"}
        /\ IsWorker(t) => label # "release"
    BY DEF AfterRaise, IsWorker
  <2> HIDE DEF label
  <2>3. /\ OthersStay(t)
        /\ job'[t].pc = label /\ job'[t].key = job[t].key /\ job'[t].kind = job[t].kind
        /\ job'[t].game = job[t].game
    BY <1>14, <2>2, GoingOn DEF RaiseInJob, JobLabel, label
  <2>4. JobShape(job'[t])
    BY <1>0, <2>1, <2>2, <2>3 DEF JobShape, Early
  <2>5. KeyEffect(t)
    BY <2>1, <2>2, <2>3 DEF KeyEffect, HoldsKey, tables
  <2>6. ProgressEffect(t)
    BY <2>1, <2>2, <2>3 DEF ProgressEffect, tables, ReportsOn, Reporting, IsWorker
  <2>7. FileEffect(t)
    BY <2>1, <2>2, <2>3 DEF FileEffect, HasOpened
  <2>8. QED
    BY <1>0, <2>1, <2>3, <2>4, <2>5, <2>6, <2>7 DEF StepEffect, tables
<1>15. CASE ReleaseKey(t)
  <2>1. /\ job[t].pc \in {"release", "release, then cleanup"}
        /\ job[t].key \in Archive /\ UNCHANGED <<progress, canceling, diskVars>>
        /\ inFlight' = inFlight \ {job[t].key} /\ HoldsKey(t)
    BY <1>0, <1>15, DownloadAssumption DEF ReleaseKey, JobShape, Keyed, HoldsKey
  <2>2. CASE job[t].pc = "release"
    <3>1. JobDone(t)
      BY <1>15, <2>2 DEF ReleaseKey
    <3>2. QED
      BY <1>0, <2>1, <2>2, <3>1, BeingDone
      DEF StepEffect, KeyEffect, ProgressEffect, FileEffect, HasOpened, ReportsOn, Reporting
  <2>3. CASE job[t].pc = "release, then cleanup"
    <3>1. JobGoto(t, "cleanup")
      BY <1>15, <2>3 DEF ReleaseKey
    <3>2. /\ OthersStay(t)
          /\ job'[t].pc = "cleanup" /\ job'[t].key = job[t].key /\ job'[t].kind = job[t].kind
          /\ job'[t].game = job[t].game
      BY <3>1, GoingOn DEF JobLabel
    <3>3. JobShape(job'[t])
      BY <1>0, <2>1, <3>2 DEF JobShape, Early
    <3>4. KeyEffect(t) /\ ProgressEffect(t) /\ FileEffect(t)
      BY <2>1, <3>2
      DEF KeyEffect, ProgressEffect, FileEffect, HasOpened, HoldsKey, ReportsOn, Reporting, IsWorker
    <3>5. QED
      BY <1>0, <2>1, <3>2, <3>3, <3>4 DEF StepEffect
  <2>4. QED
    BY <2>1, <2>2, <2>3
<1>16. CASE Cleanup(t)
  <2>1. /\ job[t].pc \in {"cleanup", "cleanup, then release"}
        /\ job[t].key \in Archive /\ RemoveFile(t) /\ Report(t, "error")
        /\ UNCHANGED <<canceling, inFlight>>
    BY <1>0, <1>16 DEF Cleanup, JobShape, Keyed
  <2>2. ProgressEffect(t)
    <3>1. CASE IsWorker(t)
      BY <1>0, <2>1, <3>1 DEF Report, ProgressEffect, TerminalStatus, IsWorker, JobShape
    <3>2. CASE ~IsWorker(t)
      BY <2>1, <3>2 DEF Report, ProgressEffect, ReportsOn
    <3>3. QED
      BY <3>1, <3>2
  <2>3. CASE job[t].pc = "cleanup"
    <3>1. JobDone(t)
      BY <1>16, <2>3 DEF Cleanup
    <3>2. FileEffect(t)
      BY <2>1, <3>1, BeingDone DEF FileEffect, HasOpened
    <3>3. QED
      BY <1>0, <2>1, <2>2, <3>1, <3>2, BeingDone DEF StepEffect, KeyEffect
  <2>4. CASE job[t].pc = "cleanup, then release"
    <3>1. JobGoto(t, "release")
      BY <1>16, <2>4 DEF Cleanup
    <3>2. /\ OthersStay(t)
          /\ job'[t].pc = "release" /\ job'[t].key = job[t].key /\ job'[t].kind = job[t].kind
          /\ job'[t].game = job[t].game
      BY <3>1, GoingOn DEF JobLabel
    <3>3. JobShape(job'[t])
      BY <1>0, <2>1, <3>2 DEF JobShape, Early
    <3>4. KeyEffect(t)
      BY <2>1, <2>4, <3>2 DEF KeyEffect, HoldsKey
    <3>5. FileEffect(t)
      BY <2>1, <3>2 DEF FileEffect, HasOpened
    <3>6. QED
      BY <1>0, <2>1, <2>2, <3>2, <3>3, <3>4, <3>5 DEF StepEffect
  <2>5. QED
    BY <2>1, <2>3, <2>4
<1>17. CASE Unflag(t)
  <2>1. job[t].pc = "unflag" /\ LeaveJob(t) /\ UNCHANGED <<progress, inFlight, diskVars>>
          /\ canceling' \subseteq Download
    BY <1>0, <1>17 DEF Unflag
  <2>2. /\ OthersStay(t) /\ JobShape(job'[t])
        /\ job'[t].pc \in {"idle", "release"}
        /\ HoldsKey(t)' => HoldsKey(t) /\ job'[t].key = job[t].key
    BY <2>1, Leaving
  <2>3. ProgressEffect(t)
    BY <2>1 DEF ProgressEffect, ReportsOn, Reporting
  <2>4. QED
    BY <2>1, <2>2, <2>3 DEF StepEffect, KeyEffect, FileEffect, HasOpened
<1>18. QED
  BY <1>1, <1>2, <1>3, <1>4, <1>5, <1>6, <1>7, <1>8, <1>9, <1>10, <1>11, <1>12, <1>13, <1>14,
     <1>15, <1>16, <1>17
  DEF DownloadStep

\* A request of an idle thread.
LEMMA StepOfRequest ==
  ASSUME DownloadTypeOK, JobShapes, NEW t \in DownloadThread,
         DownloadRequest(t) \/ \E g \in Download : CancelDownload(t, g)
  PROVE  StepEffect(t)
<1>0. job[t] \in Job /\ JobShape(job[t]) /\ canceling \subseteq Download
  BY DEF DownloadTypeOK, JobShapes
<1>1. ASSUME NEW label \in JobLabel, NEW kind \in JobKind, NEW g \in Download,
             NEW k \in Archive \cup {NoArchive}, job' = [job EXCEPT ![t] = JobFor(label, kind, g, k)]
      PROVE  /\ OthersStay(t)
             /\ job'[t].pc = label /\ job'[t].kind = kind /\ job'[t].game = g /\ job'[t].key = k
  <2>1. JobFor(label, kind, g, k) \in Job
    BY NewJobs
  <2>2. OthersStay(t) /\ job'[t] = JobFor(label, kind, g, k)
    BY <1>1, <2>1, JobGoes DEF OthersStay
  <2>3. QED
    BY <2>2 DEF JobFor
<1>2. \A g \in Download : ~ReportsOn(t, g) \/ job[t].pc # "idle"
  BY DEF ReportsOn, Reporting
<1>3. ASSUME NEW g \in Download, StartById(t, g) PROVE StepEffect(t)
  <2>1. /\ OthersStay(t)
        /\ job'[t].pc = "discard" /\ job'[t].kind = "by id" /\ job'[t].game = g
        /\ job'[t].key = NoArchive
    BY <1>1, <1>3 DEF StartById, JobLabel, JobKind
  <2>2. JobShape(job'[t])
    BY <2>1 DEF JobShape, Early, Keyed
  <2>3. QED
    BY <1>0, <1>2, <1>3, <2>1, <2>2
    DEF StartById, JobAt, tables, StepEffect, KeyEffect, ProgressEffect, FileEffect, HasOpened, HoldsKey
<1>4. ASSUME NEW g \in Download, NEW k \in Archive, StartWithUrl(t, g, k) PROVE StepEffect(t)
  <2>1. /\ OthersStay(t)
        /\ job'[t].pc = "reserve first" /\ job'[t].kind = "with url" /\ job'[t].game = g
        /\ job'[t].key = k
    BY <1>1, <1>4 DEF StartWithUrl, JobLabel, JobKind
  <2>2. JobShape(job'[t])
    BY <2>1 DEF JobShape, Early, Keyed
  <2>3. QED
    BY <1>0, <1>2, <1>4, <2>1, <2>2
    DEF StartWithUrl, JobAt, tables, StepEffect, KeyEffect, ProgressEffect, FileEffect, HasOpened, HoldsKey
<1>5. ASSUME NEW g \in Download, NEW k \in Archive, SyncDownload(t, g, k) PROVE StepEffect(t)
  <2>1. /\ OthersStay(t)
        /\ job'[t].pc = "fetch" /\ job'[t].kind = "sync" /\ job'[t].game = g
        /\ job'[t].key = k
    BY <1>1, <1>5 DEF SyncDownload, JobLabel, JobKind
  <2>2. JobShape(job'[t])
    BY <2>1 DEF JobShape, Early, Keyed
  <2>3. QED
    BY <1>0, <1>2, <1>5, <2>1, <2>2
    DEF SyncDownload, JobAt, StepEffect, KeyEffect, ProgressEffect, FileEffect, HasOpened
<1>6. ASSUME NEW g \in Download, CancelDownload(t, g) PROVE StepEffect(t)
  <2>1. /\ OthersStay(t)
        /\ job'[t].pc = "cancel check" /\ job'[t].kind = "cancel" /\ job'[t].game = g
        /\ job'[t].key = NoArchive
    BY <1>1, <1>6 DEF CancelDownload, JobLabel, JobKind
  <2>2. JobShape(job'[t])
    BY <2>1 DEF JobShape, Early, Keyed
  <2>3. QED
    BY <1>0, <1>2, <1>6, <2>1, <2>2
    DEF CancelDownload, JobAt, StepEffect, KeyEffect, ProgressEffect, FileEffect, HasOpened, HoldsKey
<1>7. QED
  BY <1>3, <1>4, <1>5, <1>6 DEF DownloadRequest
--------------------------------------------------------------------------------
\* What a thread does to its file keeps the types.
LEMMA FilesTyped ==
  ASSUME DownloadTypeOK, JobShapes, FilesKept, NEW t \in DownloadThread, FileEffect(t)
  PROVE  /\ onDisk' \in [File -> Content] /\ linked' \subseteq DownloadThread
         /\ mixed' \in [DownloadThread -> SUBSET Archive]
<1> USE DEF DownloadTypeOK
<1>1. CASE diskVars' = diskVars
  BY <1>1 DEF diskVars
<1>2. CASE CloseFile(t)
  BY <1>2 DEF CloseFile
<1>3. CASE RemoveFile(t)
  BY <1>3 DEF RemoveFile, Content
<1>4. CASE OpenFile(t) /\ job[t].key \in Archive
  <2>1. \A w \in Writing(FileOfJob(t)) : w \in DownloadThread /\ job[w].key \in Archive
    BY DEF Writing, FilesKept, JobAt, JobShapes, JobShape, Keyed
  <2>2. QED
    BY <1>4, <2>1 DEF OpenFile, Content
<1>5. ASSUME NEW ok \in BOOLEAN, WriteFile(t, ok), job[t].key \in Archive
      PROVE  /\ onDisk' \in [File -> Content]
             /\ linked' \subseteq DownloadThread
             /\ mixed' \in [DownloadThread -> SUBSET Archive]
  <2>1. FileOfJob(t) \in File
    BY <1>5, DownloadAssumption DEF FileOfJob
  <2>2. onDisk' \in [File -> Content]
    BY <1>5, <2>1 DEF WriteFile, Content
  <2>3. QED
    BY <1>5, <2>2 DEF WriteFile
<1>6. QED
  BY <1>1, <1>2, <1>3, <1>4, <1>5 DEF FileEffect

LEMMA EffectOnTypes ==
  ASSUME DownloadTypeOK, JobShapes, FilesKept, NEW t \in DownloadThread, StepEffect(t)
  PROVE  DownloadTypeOK' /\ JobShapes'
<1>1. job' \in [DownloadThread -> Job] /\ canceling' \subseteq Download
  BY DEF StepEffect, OthersStay
<1>2. JobShapes'
  BY DEF StepEffect, OthersStay, JobShapes
<1>3. progress' \in [Download -> ActiveStatus \cup TerminalStatus \cup {"none"}]
  BY DEF StepEffect, ProgressEffect, DownloadTypeOK
<1>4. inFlight' \subseteq Archive
  BY DEF StepEffect, KeyEffect, DownloadTypeOK
<1>5. onDisk' \in [File -> Content] /\ linked' \subseteq DownloadThread
        /\ mixed' \in [DownloadThread -> SUBSET Archive]
  BY FilesTyped DEF StepEffect
<1>6. QED
  BY <1>1, <1>2, <1>3, <1>4, <1>5 DEF DownloadTypeOK

\* The lock around the reservation is what makes the owner of a key unique.
LEMMA EffectOnKeys ==
  ASSUME DownloadTypeOK, KeysHeld, NEW t \in DownloadThread, StepEffect(t)
  PROVE  KeysHeld'
<1>1. \A u \in DownloadThread \ {t} : job'[u] = job[u] /\ (HoldsKey(u)' <=> HoldsKey(u))
  BY DEF StepEffect, OthersStay, HoldsKey
<1>2. CASE inFlight' = inFlight /\ (HoldsKey(t)' => HoldsKey(t) /\ job'[t].key = job[t].key)
  BY <1>1, <1>2 DEF KeysHeld
<1>3. CASE job'[t].key \in Archive \ inFlight /\ inFlight' = inFlight \cup {job'[t].key}
  BY <1>1, <1>3 DEF KeysHeld
<1>4. CASE HoldsKey(t) /\ ~HoldsKey(t)' /\ inFlight' = inFlight \ {job[t].key}
  BY <1>1, <1>4 DEF KeysHeld
<1>5. QED
  BY <1>2, <1>3, <1>4 DEF StepEffect, KeyEffect

\* An open file is one of a thread that holds its key, and nobody else holds it.
LEMMA Opened ==
  ASSUME JobShapes, NEW u \in DownloadThread, HasOpened(u)
  PROVE  HoldsKey(u) /\ job[u].key \in Archive /\ FileOfJob(u) \in File
BY DownloadAssumption DEF JobShapes, JobShape, Keyed, HoldsKey, HasOpened, FileOfJob

\* Who opens a file disturbs every thread that has it open, under another key than its own;
\* a file nobody has disturbed keeps what its thread has written, or loses its name.
LEMMA EffectOnFiles ==
  ASSUME DownloadTypeOK, JobShapes, KeysHeld, FilesKept, NEW t \in DownloadThread, StepEffect(t)
  PROVE  FilesKept'
<1> USE DEF JobAt
<1>1. \A u \in DownloadThread \ {t} : job'[u] = job[u]
  BY DEF StepEffect, OthersStay
<1>2. \A u \in DownloadThread \ {t} :
        /\ FileOfJob(u)' = FileOfJob(u) /\ (HasOpened(u)' <=> HasOpened(u))
        /\ HasReceived(u)' <=> HasReceived(u)
  BY <1>1 DEF FileOfJob, HasOpened, HasReceived, IsWorker
<1>3. onDisk \in [File -> Content] /\ mixed \in [DownloadThread -> SUBSET Archive]
        /\ linked \subseteq DownloadThread
  BY DEF DownloadTypeOK
<1>4. \A u \in linked : HasOpened(u)
  BY DEF FilesKept, HasOpened
<1>5. \A u \in DownloadThread : HasOpened(u) => job[u].key \in Archive /\ FileOfJob(u) \in File
  BY Opened
<1>6. CASE ((diskVars' = diskVars /\ ~HasOpened(t)) \/ CloseFile(t)) /\ ~HasOpened(t)'
  <2>1. onDisk' = onDisk /\ linked' = linked \ {t}
          /\ \A u \in DownloadThread \ {t} : mixed'[u] = mixed[u]
    BY <1>3, <1>4, <1>6 DEF diskVars, CloseFile
  <2>2. \A u \in DownloadThread : Unmixed(u)' => Unmixed(u) /\ u # t
    BY <1>2, <1>6, <2>1 DEF Unmixed
  <2>3. QED
    BY <1>1, <1>2, <1>3, <1>6, <2>1, <2>2 DEF FilesKept, Unmixed
<1>7. CASE RemoveFile(t) /\ job[t].key \in Archive /\ ~HasOpened(t)'
  <2>1. /\ onDisk' = [onDisk EXCEPT ![FileOfJob(t)] = "absent"]
        /\ linked' = linked \ Writing(FileOfJob(t))
        /\ \A u \in DownloadThread \ {t} : mixed'[u] = mixed[u]
    BY <1>3, <1>7 DEF RemoveFile
  <2>2. \A u \in DownloadThread : Unmixed(u)' => Unmixed(u) /\ u # t
    BY <1>2, <1>7, <2>1 DEF Unmixed
  <2>3. \A u \in linked' : u \in linked /\ u # t
    BY <2>1 DEF Writing
  <2>4. \A u \in DownloadThread : Unmixed(u)' /\ onDisk[FileOfJob(u)] = "absent"
          => onDisk'[FileOfJob(u)] = "absent"
    BY <1>3, <1>5, <2>1, <2>2 DEF Unmixed
  <2>5. \A u \in linked \ linked' : FileOfJob(u) = FileOfJob(t)
    BY <2>1 DEF Writing
  <2>6. \A u \in DownloadThread \ linked' :
          Unmixed(u)' /\ job'[u].pc = "receive" => onDisk'[FileOfJob(u)'] = "absent"
    BY <1>1, <1>2, <1>3, <1>5, <2>1, <2>2, <2>4, <2>5 DEF FilesKept, Unmixed
  <2>7. \A u \in DownloadThread :
          Unmixed(u)' /\ HasReceived(u)' => onDisk'[FileOfJob(u)'] \in {job'[u].key, "absent"}
    BY <1>1, <1>2, <1>3, <1>5, <2>1, <2>2 DEF FilesKept, Unmixed
  <2>8. QED
    BY <1>1, <1>2, <1>3, <1>7, <2>1, <2>2, <2>3, <2>6, <2>7 DEF FilesKept
<1>8. CASE /\ job[t].pc = "verify" /\ job'[t].pc = "extract" /\ diskVars' = diskVars
           /\ job'[t].key = job[t].key
           /\ Unmixed(t) => onDisk[FileOfJob(t)] \in {job[t].key, "absent"}
  <2>1. FileOfJob(t)' = FileOfJob(t) /\ HasOpened(t)' /\ HasOpened(t)
          /\ onDisk' = onDisk /\ linked' = linked /\ mixed' = mixed /\ t \notin linked
    BY <1>8 DEF FileOfJob, HasOpened, diskVars, FilesKept
  <2>2. \A u \in DownloadThread : Unmixed(u)' <=> Unmixed(u)
    BY <1>2, <2>1 DEF Unmixed
  <2>3. QED
    BY <1>1, <1>2, <1>3, <1>8, <2>1, <2>2 DEF FilesKept
<1>9. CASE /\ HoldsKey(t) /\ job[t].key \in Archive /\ job'[t].key = job[t].key
           /\ job[t].pc = "connect" /\ job'[t].pc = "receive" /\ OpenFile(t)
  <2>1. /\ FileOfJob(t)' = FileOfJob(t) /\ FileOfJob(t) \in File /\ HasOpened(t)'
        /\ ~HasReceived(t)'
    BY <1>9, DownloadAssumption DEF FileOfJob, HasOpened, HasReceived
  <2>2. /\ onDisk' = [onDisk EXCEPT ![FileOfJob(t)] = "partial"]
        /\ linked' = linked \cup {t}
        /\ mixed'[t] = {job[w].key : w \in Writing(FileOfJob(t))}
        /\ \A u \in DownloadThread \ {t} :
             mixed'[u] = IF HasOpened(u) /\ FileOfJob(u) = FileOfJob(t)
                         THEN mixed[u] \cup {job[t].key} ELSE mixed[u]
    BY <1>9 DEF OpenFile
  <2>3. \A u \in DownloadThread \ {t} :
          /\ Unmixed(u)' => Unmixed(u) /\ FileOfJob(u) # FileOfJob(t)
          /\ HasOpened(u) => job[u].key # job[t].key
    BY <1>2, <1>9, <2>2, Opened DEF Unmixed, KeysHeld
  <2>4. \A w \in Writing(FileOfJob(t)) : w \in DownloadThread /\ w # t /\ HasOpened(w)
    BY <1>3, <1>4, <1>9 DEF Writing, HasOpened
  <2>5. \A u \in DownloadThread : HasOpened(u)' => job'[u].key \notin mixed'[u]
    <3>1. job[t].key \notin mixed'[t]
      BY <2>2, <2>3, <2>4
    <3>2. \A u \in DownloadThread \ {t} : HasOpened(u) =>
            job[u].key \notin mixed[u] /\ job[u].key # job[t].key
      BY <2>3 DEF FilesKept
    <3>3. \A u \in DownloadThread \ {t} : HasOpened(u)' => job'[u].key \notin mixed'[u]
      BY <1>1, <1>2, <2>2, <3>2
    <3>4. QED
      BY <1>9, <3>1, <3>3
  <2>6. \A u \in DownloadThread : \A w \in linked' \ {u} :
          Unmixed(u)' => FileOfJob(w)' # FileOfJob(u)'
    <3>1. Unmixed(t)' => \A w \in linked : FileOfJob(w) # FileOfJob(t)
      BY <2>2 DEF Unmixed, Writing
    <3>2. QED
      BY <1>2, <1>3, <2>1, <2>2, <2>3, <3>1 DEF FilesKept
  <2>7. \A u \in DownloadThread \ linked' :
          Unmixed(u)' /\ job'[u].pc = "receive" => onDisk'[FileOfJob(u)'] = "absent"
    BY <1>1, <1>2, <1>3, <1>5, <2>1, <2>2, <2>3 DEF FilesKept, Unmixed
  <2>8. \A u \in DownloadThread :
          Unmixed(u)' /\ HasReceived(u)' => onDisk'[FileOfJob(u)'] \in {job'[u].key, "absent"}
    BY <1>1, <1>2, <1>3, <1>5, <2>1, <2>2, <2>3 DEF FilesKept, Unmixed
  <2>9. \A u \in linked' : job'[u].pc = "receive"
    BY <1>1, <1>3, <1>9, <2>2 DEF FilesKept
  <2>10. QED
    BY <2>5, <2>6, <2>7, <2>8, <2>9 DEF FilesKept
<1>10. ASSUME NEW ok \in BOOLEAN, HoldsKey(t), job[t].key \in Archive, job'[t].key = job[t].key,
              job[t].pc = "receive", job'[t].pc = "verify", job'[t].ok => ok, WriteFile(t, ok)
       PROVE  FilesKept'
  <2>1. /\ FileOfJob(t)' = FileOfJob(t) /\ HasOpened(t)' /\ HasOpened(t) /\ FileOfJob(t) \in File
        /\ HasReceived(t)' => ok
    BY <1>5, <1>10 DEF FileOfJob, HasOpened, HasReceived
  <2>2. linked' = linked \ {t} /\ mixed' = mixed
    BY <1>10 DEF WriteFile
  <2>3. \A u \in DownloadThread : Unmixed(u)' <=> Unmixed(u)
    BY <1>2, <2>1, <2>2 DEF Unmixed
  <2>4. \A u \in DownloadThread \ {t} :
          Unmixed(u) => onDisk'[FileOfJob(u)] = onDisk[FileOfJob(u)]
    <3>1. CASE t \notin linked
      BY <1>10, <3>1 DEF WriteFile
    <3>2. CASE t \in linked
      <4>1. \A u \in DownloadThread \ {t} : Unmixed(u) => FileOfJob(u) # FileOfJob(t)
        BY <3>2 DEF FilesKept
      <4>2. \E content : onDisk' = [onDisk EXCEPT ![FileOfJob(t)] = content]
        BY <1>10, <3>2 DEF WriteFile
      <4>3. QED
        BY <1>3, <1>5, <4>1, <4>2 DEF Unmixed
    <3>3. QED
      BY <3>1, <3>2
  <2>5. Unmixed(t) /\ ok => onDisk'[FileOfJob(t)] \in {job[t].key, "absent"}
    <3>1. CASE t \notin linked
      BY <1>10, <3>1 DEF WriteFile, FilesKept
    <3>2. CASE t \in linked
      BY <1>3, <1>10, <2>1, <3>2 DEF WriteFile, Unmixed
    <3>3. QED
      BY <3>1, <3>2
  <2>6. \A u \in DownloadThread \ linked' :
          Unmixed(u)' /\ job'[u].pc = "receive" => onDisk'[FileOfJob(u)'] = "absent"
    BY <1>1, <1>2, <1>10, <2>2, <2>3, <2>4 DEF FilesKept
  <2>7. \A u \in DownloadThread :
          Unmixed(u)' /\ HasReceived(u)' => onDisk'[FileOfJob(u)'] \in {job'[u].key, "absent"}
    BY <1>1, <1>2, <1>10, <2>1, <2>3, <2>4, <2>5 DEF FilesKept
  <2>8. \A u \in linked' : job'[u].pc = "receive"
    BY <1>1, <1>3, <2>2 DEF FilesKept
  <2>9. \A u \in DownloadThread : HasOpened(u)' => job'[u].key \notin mixed'[u]
    BY <1>1, <1>2, <1>10, <2>1, <2>2 DEF FilesKept
  <2>10. \A u \in DownloadThread : \A w \in linked' \ {u} :
           Unmixed(u)' => FileOfJob(w)' # FileOfJob(u)'
    BY <1>2, <1>3, <2>1, <2>2, <2>3 DEF FilesKept
  <2>11. QED
    BY <2>6, <2>7, <2>8, <2>9, <2>10 DEF FilesKept
<1>11. QED
  BY <1>6, <1>7, <1>8, <1>9, <1>10 DEF StepEffect, FileEffect

LEMMA EffectOnProgress ==
  ASSUME DownloadTypeOK, ActiveHasWorker, NEW t \in DownloadThread, StepEffect(t)
  PROVE  ActiveHasWorker'
<1> SUFFICES ASSUME NEW g \in Download, IsActive(g)'
             PROVE  \E u \in DownloadThread : ReportsOn(u, g)'
  BY DEF ActiveHasWorker
<1>1. \A u \in DownloadThread \ {t} : ReportsOn(u, g) => ReportsOn(u, g)'
  BY DEF StepEffect, OthersStay, ReportsOn, IsWorker
<1>2. CASE progress' = progress /\ \A h \in Download : ReportsOn(t, h) => ReportsOn(t, h)'
  BY <1>1, <1>2 DEF ActiveHasWorker, IsActive
<1>3. ASSUME job[t].game \in Download, NEW s \in TerminalStatus,
             progress' = [progress EXCEPT ![job[t].game] = s]
      PROVE  \E u \in DownloadThread : ReportsOn(u, g)'
  <2>1. g # job[t].game
    BY <1>3 DEF IsActive, ActiveStatus, TerminalStatus, DownloadTypeOK
  <2>2. PICK u \in DownloadThread : ReportsOn(u, g)
    BY <1>3, <2>1 DEF ActiveHasWorker, IsActive, DownloadTypeOK
  <2>3. u # t
    BY <2>1, <2>2 DEF ReportsOn
  <2>4. QED
    BY <1>1, <2>2, <2>3
<1>4. ASSUME NEW h \in Download, NEW s \in ActiveStatus, h = job[t].game, ReportsOn(t, h)',
             progress' = [progress EXCEPT ![h] = s]
      PROVE  \E u \in DownloadThread : ReportsOn(u, g)'
  <2>1. CASE g = h
    BY <1>4, <2>1
  <2>2. CASE g # h
    <3>1. PICK u \in DownloadThread : ReportsOn(u, g)
      BY <1>4, <2>2 DEF ActiveHasWorker, IsActive, DownloadTypeOK
    <3>2. u # t
      BY <1>4, <2>2, <3>1 DEF ReportsOn
    <3>3. QED
      BY <1>1, <3>1, <3>2
  <2>3. QED
    BY <2>1, <2>2
<1>5. QED
  BY <1>2, <1>3, <1>4 DEF StepEffect, ProgressEffect

LEMMA DownloadInvStep == DownloadInv /\ [DownloadNext]_dvars => DownloadInv'
<1> SUFFICES ASSUME DownloadInv, [DownloadNext]_dvars PROVE DownloadInv'
  OBVIOUS
<1> USE DEF DownloadInv
<1>1. CASE UNCHANGED dvars
  <2> USE <1>1 DEF dvars, tables, diskVars
  <2>1. DownloadTypeOK' /\ JobShapes' /\ KeysHeld'
    BY DEF DownloadTypeOK, JobShapes, KeysHeld, HoldsKey
  <2>2. FilesKept'
    BY DEF FilesKept, Unmixed, HasReceived, HasOpened, FileOfJob, JobAt, IsWorker
  <2>3. ActiveHasWorker'
    BY DEF ActiveHasWorker, ReportsOn, IsWorker, IsActive
  <2>4. QED
    BY <2>1, <2>2, <2>3
<1>2. ASSUME NEW t \in DownloadThread, StepEffect(t) PROVE DownloadInv'
  BY <1>2, EffectOnTypes, EffectOnKeys, EffectOnFiles, EffectOnProgress
<1>3. ASSUME NEW g \in Download, RemoveDirectory(g) PROVE DownloadInv'
  <2>1. progress' = [progress EXCEPT ![g] = "none"] /\ UNCHANGED <<canceling, inFlight, diskVars, job>>
    BY <1>3 DEF RemoveDirectory
  <2>2. DownloadTypeOK'
    BY <2>1 DEF DownloadTypeOK, diskVars
  <2>3. ActiveHasWorker'
    BY <2>1 DEF ActiveHasWorker, IsActive, ActiveStatus, ReportsOn, IsWorker, DownloadTypeOK
  <2>4. QED
    BY <2>1, <2>2, <2>3
    DEF JobShapes, KeysHeld, HoldsKey, diskVars, FilesKept, Unmixed, HasReceived, HasOpened, FileOfJob,
        JobAt, IsWorker
<1>4. ASSUME NEW t \in DownloadThread,
             DownloadStep(t) \/ DownloadRequest(t) \/ \E g \in Download : CancelDownload(t, g)
      PROVE  DownloadInv'
  BY <1>2, <1>4, StepOfThread, StepOfRequest
<1>5. QED
  BY <1>1, <1>3, <1>4 DEF DownloadNext, DownloadThread

LEMMA DownloadInvariant == DownloadSpec => []DownloadInv
<1>1. DownloadInit => DownloadInv
  BY DownloadInvInit
<1>2. DownloadInv /\ [DownloadNext]_dvars => DownloadInv'
  BY DownloadInvStep
<1>3. QED
  BY <1>1, <1>2, PTL DEF DownloadSpec

\* Every variable has its type.
THEOREM DownloadTypeCorrect == DownloadSpec => []DownloadTypeOK
<1>1. DownloadInv => DownloadTypeOK
  BY DEF DownloadInv
<1>2. QED
  BY DownloadInvariant, <1>1, PTL

\* What the invariant says of a worker that extracts.
LEMMA InvVerified == DownloadInv => VerifiedOnDisk
<1> SUFFICES ASSUME DownloadInv, NEW t \in DownloadThread, JobAt(t, "extract"),
                    mixed[t] \subseteq {job[t].key}
             PROVE  onDisk[FileOfJob(t)] \in {job[t].key, "absent"}
  BY DEF VerifiedOnDisk
<1>1. HasOpened(t) /\ HasReceived(t)
  BY DEF HasOpened, HasReceived, JobAt
<1>2. mixed[t] = {}
  BY <1>1 DEF DownloadInv, FilesKept
<1>3. QED
  BY <1>1, <1>2 DEF DownloadInv, FilesKept, Unmixed

\* What a worker extracts is the archive it has verified, or nothing, unless the file was
\* opened under another key: its own key, taken under the lock (_DOWNLOAD_KEYS_LOCK,
\* file_operations.py), is no other thread's until it is released.
THEOREM ExtractsVerified == DownloadSpec => []VerifiedOnDisk
BY DownloadInvariant, InvVerified, PTL

\* A game that is shown as being downloaded has a worker that will say how it ended, for
\* any number of starts, cancels and removals at once.
THEOREM ActiveIsWorkedOn == DownloadSpec => []ActiveHasWorker
<1>1. DownloadInv => ActiveHasWorker
  BY DEF DownloadInv
<1>2. QED
  BY DownloadInvariant, <1>1, PTL

\* While a key is held by one thread no other gets it, whatever is raised or canceled.
THEOREM KeysAreExclusive == DownloadSpec => []KeysHeld
<1>1. DownloadInv => KeysHeld
  BY DEF DownloadInv
<1>2. QED
  BY DownloadInvariant, <1>1, PTL
================================================================================
