-------------------------- MODULE GameInstallProofs ----------------------------
(***************************************************************************)
(* Proofs about GameInstall for every set of games, threads and versions.  *)
(***************************************************************************)
EXTENDS GameInstall, TLAPS

\* The labels of a download, and those at which a thread is at a game.
Downloading == {"check", "fetch", "done", "failed", "gone", "unmark", "release"}
AtGame      == Downloading \cup {"play", "launch", "run", "quit"}

\* A thread of download_game_async is idle or downloads; a thread that is at a game
\* has one.
ThreadsOK ==
  /\ \A w \in Worker : pc[w] \in Downloading \cup {"idle"}
  /\ \A t \in Thread : pc[t] \in AtGame => job[t].game \in Game

IInv == GameTypeOK /\ ThreadsOK /\ OneDownloadPerGame

LEMMA Threads ==
  /\ "server" \in Thread /\ "main" \in Thread /\ Worker \subseteq Thread
  /\ "server" \notin Worker /\ "main" \notin Worker
BY GameAssumption DEF Thread

LEMMA Constants ==
  /\ NoEntry \in Entry /\ NoJob \in Job /\ MaxVersion \in Nat \ {0}
  /\ 0 \in 0..MaxVersion /\ 1 \in 0..MaxVersion
  /\ \A v \in Version : v \in 0..MaxVersion
BY GameAssumption DEF NoEntry, Entry, NoJob, Job, Version

LEMMA ToldType ==
  ASSUME NEW g \in Game, NEW s \in Status \cup {"removed"}, NEW v \in 0..MaxVersion
  PROVE  Told(g, s, v) \in Update
BY DEF Told, Update
--------------------------------------------------------------------------------
\* The initial states.
THEOREM Initial == GameInit => IInv
<1> SUFFICES ASSUME GameInit PROVE IInv
  OBVIOUS
<1>1. GameTypeOK
  <2>1. row \in [Game -> Entry]
    BY DEF GameInit
  <2>2. inbox \in Seq([games : [Game -> Entry], origin : {"app", "bridge"}])
    BY <2>1 DEF GameInit
  <2>3. \A t \in Thread : pc[t] \in Label
    BY DEF GameInit, Label
  <2>4. QED
    BY <2>1, <2>2, <2>3, Constants DEF GameInit, GameTypeOK, Label
<1>2. ThreadsOK
  BY Threads DEF GameInit, ThreadsOK, AtGame, Downloading
<1>3. OneDownloadPerGame
  BY Threads DEF GameInit, OneDownloadPerGame, Live
<1>4. QED
  BY <1>1, <1>2, <1>3 DEF IInv
--------------------------------------------------------------------------------
\* What request_set_game_status leaves is typed.
LEMMA Requested ==
  ASSUME GameTypeOK, NEW published \in [Game -> Entry], NEW t \in Thread, NEW g \in Game,
         NEW s \in Status, RequestFrom(published, t, g, s)
  PROVE  /\ cache' \in [Game -> Entry]
         /\ msg' \in [Thread -> Update \cup {Nothing}]
<1> DEFINE v == IF local[g] >= snap[g].version THEN local[g] ELSE snap[g].version
           told == [status |-> s, version |-> v]
<1>1. v \in 0..MaxVersion
  BY DEF GameTypeOK, Entry
<1>2. told \in Entry /\ Told(g, s, v) \in Update
  BY <1>1 DEF Entry, Told, Update
<1>3. CASE Unlisted(g) \/ published[g] = told
  BY <1>3 DEF RequestFrom, GameTypeOK
<1>4. CASE ~(Unlisted(g) \/ published[g] = told)
  <2>1. /\ cache' = [published EXCEPT ![g] = told]
        /\ msg' = [msg EXCEPT ![t] = Told(g, s, v)]
    BY <1>4 DEF RequestFrom
  <2>2. QED
    BY <1>2, <2>1 DEF GameTypeOK
<1>5. QED
  BY <1>3, <1>4

LEMMA Sent ==
  ASSUME GameTypeOK, NEW updates \in SUBSET Update, Send(updates)
  PROVE  out' \in Seq(SUBSET Update)
BY DEF GameTypeOK, Send

\* The start of a download keeps the invariant about threads.
LEMMA Started ==
  ASSUME IInv, NEW g \in Game, NEW v \in 0..MaxVersion,
         NEW kind \in {"recovery", "resume", "command"}, StartDownload(g, v, kind)
  PROVE  /\ pc' \in [Thread -> Label] /\ job' \in [Thread -> Job] /\ inflight' \subseteq Game
         /\ ThreadsOK' /\ OneDownloadPerGame'
<1>1. CASE g \in inflight
  BY <1>1 DEF IInv, GameTypeOK, ThreadsOK, OneDownloadPerGame, Live, StartDownload, control
<1>2. CASE g \notin inflight
  <2> DEFINE w == CHOOSE w \in Worker : pc[w] = "idle"
             j == [game |-> g, version |-> v, kind |-> kind]
  <2>1. w \in Worker /\ pc[w] = "idle" /\ w \in Thread
    BY <1>2, Threads DEF StartDownload
  <2>2. /\ job' = [job EXCEPT ![w] = j]
        /\ pc' = [pc EXCEPT ![w] = "check"]
        /\ inflight' = inflight \cup {g}
    BY <1>2 DEF StartDownload, Goto
  <2> HIDE DEF w
  <2>3. j \in Job
    BY DEF Job
  <2>4. /\ pc' \in [Thread -> Label] /\ job' \in [Thread -> Job] /\ inflight' \subseteq Game
    BY <2>1, <2>2, <2>3 DEF IInv, GameTypeOK, Label
  <2>5. ThreadsOK'
    BY <2>1, <2>2, Threads DEF IInv, GameTypeOK, ThreadsOK, Downloading, AtGame
  <2>6. \A x \in Worker : /\ Live(x)' <=> Live(x) \/ x = w
                          /\ job'[x].game = IF x = w THEN g ELSE job[x].game
    BY <2>1, <2>2, Threads DEF IInv, GameTypeOK, Live
  <2>7. ~Live(w) /\ \A x \in Worker : Live(x) => job[x].game # g
    BY <1>2, <2>1 DEF IInv, OneDownloadPerGame, Live
  <2>8. OneDownloadPerGame'
    BY <2>1, <2>2, <2>6, <2>7 DEF IInv, OneDownloadPerGame
  <2>9. QED
    BY <2>4, <2>5, <2>8
<1>3. QED
  BY <1>1, <1>2

\* A step that moves no thread keeps it.
LEMMA Still ==
  ASSUME IInv, UNCHANGED <<control, inflight>>
  PROVE  /\ pc' \in [Thread -> Label] /\ job' \in [Thread -> Job] /\ inflight' \subseteq Game
         /\ ThreadsOK' /\ OneDownloadPerGame'
BY DEF IInv, GameTypeOK, ThreadsOK, OneDownloadPerGame, Live, control

\* So does a step of a thread that downloads nothing in the background, if the
\* thread is at a game where it has to be.
LEMMA Elsewhere ==
  ASSUME IInv, NEW t \in {"server", "main"}, NEW l \in Label, NEW j \in Job,
         pc' = [pc EXCEPT ![t] = l], job' = [job EXCEPT ![t] = j], UNCHANGED inflight,
         l \in AtGame => j.game \in Game
  PROVE  /\ pc' \in [Thread -> Label] /\ job' \in [Thread -> Job] /\ inflight' \subseteq Game
         /\ ThreadsOK' /\ OneDownloadPerGame'
<1>1. t \in Thread /\ t \notin Worker
  BY Threads
<1>2. /\ pc' \in [Thread -> Label] /\ job' \in [Thread -> Job] /\ inflight' \subseteq Game
  BY <1>1 DEF IInv, GameTypeOK
<1>3. \A x \in Thread : x # t => pc'[x] = pc[x] /\ job'[x] = job[x]
  BY <1>1 DEF IInv, GameTypeOK
<1>4. pc'[t] = l /\ job'[t] = j
  BY <1>1 DEF IInv, GameTypeOK
<1>5. ThreadsOK'
  BY <1>1, <1>3, <1>4, Threads DEF IInv, ThreadsOK
<1>6. OneDownloadPerGame'
  BY <1>1, <1>3, Threads DEF IInv, OneDownloadPerGame, Live
<1>7. QED
  BY <1>2, <1>5, <1>6

\* And a step of a download that does not end it.
LEMMA Along ==
  ASSUME IInv, NEW w \in Worker, pc[w] \in Downloading, NEW l \in Downloading,
         pc' = [pc EXCEPT ![w] = l], UNCHANGED <<job, inflight>>
  PROVE  /\ pc' \in [Thread -> Label] /\ job' \in [Thread -> Job] /\ inflight' \subseteq Game
         /\ ThreadsOK' /\ OneDownloadPerGame'
<1>1. w \in Thread /\ l \in Label /\ l # "idle" /\ pc[w] # "idle"
  BY Threads DEF Downloading, Label
<1>2. /\ pc' \in [Thread -> Label] /\ job' \in [Thread -> Job] /\ inflight' \subseteq Game
  BY <1>1 DEF IInv, GameTypeOK
<1>3. \A x \in Thread : pc'[x] = IF x = w THEN l ELSE pc[x]
  BY <1>1 DEF IInv, GameTypeOK
<1>4. ThreadsOK'
  BY <1>1, <1>3, Threads DEF IInv, ThreadsOK, AtGame
<1>5. \A x \in Worker : Live(x)' <=> Live(x)
  BY <1>1, <1>3, Threads DEF Live
<1>6. OneDownloadPerGame'
  BY <1>5 DEF IInv, OneDownloadPerGame
<1>7. QED
  BY <1>2, <1>4, <1>6
--------------------------------------------------------------------------------
\* The row, the app and the user.
LEMMA SendType ==
  ASSUME IInv, NEW games \in [Game -> Entry], NEW from \in {"app", "bridge"}, Change(games, from)
  PROVE  /\ row' \in [Game -> Entry]
         /\ inbox' \in Seq([games : [Game -> Entry], origin : {"app", "bridge"}])
<1>1. [games |-> games, origin |-> from] \in [games : [Game -> Entry], origin : {"app", "bridge"}]
  OBVIOUS
<1>2. QED
  BY <1>1 DEF IInv, GameTypeOK, Change

LEMMA RowTakesStep == IInv /\ RowTakes => IInv'
<1> SUFFICES ASSUME IInv, RowTakes PROVE IInv'
  OBVIOUS
<1> DEFINE taken(g) == \E u \in Head(out) : u.game = g
           update(g) == CHOOSE u \in Head(out) : u.game = g
           entry(g) == IF row[g].status # "absent" /\ taken(g)
                       THEN IF update(g).status = "removed" THEN NoEntry
                            ELSE [status |-> update(g).status, version |-> update(g).version]
                       ELSE row[g]
           games == [g \in Game |-> entry(g)]
<1>1. Head(out) \in SUBSET Update /\ out' \in Seq(SUBSET Update)
  BY DEF RowTakes, IInv, GameTypeOK
<1>2. ASSUME NEW g \in Game PROVE entry(g) \in Entry
  <2>1. CASE row[g].status # "absent" /\ taken(g)
    <3>1. update(g) \in Update
      BY <1>1, <2>1
    <3>2. update(g).status # "removed" => [status |-> update(g).status, version |-> update(g).version] \in Entry
      BY <3>1 DEF Update, Entry
    <3>3. QED
      BY <2>1, <3>2, Constants
  <2>2. CASE ~(row[g].status # "absent" /\ taken(g))
    BY <2>2 DEF IInv, GameTypeOK
  <2>3. QED
    BY <2>1, <2>2
<1>3. games \in [Game -> Entry]
  BY <1>2
<1>4. Change(games, "bridge")
  BY DEF RowTakes
<1>5. /\ row' \in [Game -> Entry]
      /\ inbox' \in Seq([games : [Game -> Entry], origin : {"app", "bridge"}])
  BY <1>3, <1>4, SendType
<1>6. QED
  BY <1>1, <1>5, Still DEF RowTakes, IInv, GameTypeOK, snapshot, play, control

LEMMA AppChangeStep == IInv /\ AppChange => IInv'
<1> SUFFICES ASSUME IInv, AppChange PROVE IInv'
  OBVIOUS
<1>1. PICK g \in Game :
        \/ \E v \in Version : Change([row EXCEPT ![g] = [status |-> "downloading", version |-> v]], "app")
        \/ \E s \in {"playing", "ready"} : Change([row EXCEPT ![g].status = s], "app")
        \/ Change([row EXCEPT ![g] = NoEntry], "app")
        \/ Change(row, "app")
  BY DEF AppChange
<1>2. \A v \in Version : [row EXCEPT ![g] = [status |-> "downloading", version |-> v]] \in [Game -> Entry]
  BY Constants DEF IInv, GameTypeOK, Entry, Status
<1>3. ASSUME NEW s \in {"playing", "ready"}
      PROVE  [row EXCEPT ![g].status = s] \in [Game -> Entry]
  <2>1. [row[g] EXCEPT !.status = s] \in Entry
    BY DEF IInv, GameTypeOK, Entry, Status
  <2>2. QED
    BY <2>1 DEF IInv, GameTypeOK
<1>4. row \in [Game -> Entry] /\ [row EXCEPT ![g] = NoEntry] \in [Game -> Entry]
  BY Constants DEF IInv, GameTypeOK
<1>5. /\ row' \in [Game -> Entry]
      /\ inbox' \in Seq([games : [Game -> Entry], origin : {"app", "bridge"}])
  <2>1. CASE \E v \in Version : Change([row EXCEPT ![g] = [status |-> "downloading", version |-> v]], "app")
    BY <2>1, <1>2, SendType
  <2>2. CASE \E s \in {"playing", "ready"} : Change([row EXCEPT ![g].status = s], "app")
    BY <2>2, <1>3, SendType
  <2>3. CASE Change([row EXCEPT ![g] = NoEntry], "app") \/ Change(row, "app")
    BY <2>3, <1>4, SendType
  <2>4. QED
    BY <1>1, <2>1, <2>2, <2>3
<1>6. changes' \in 0..MaxChange
  BY GameAssumption DEF AppChange, IInv, GameTypeOK
<1>7. QED
  BY <1>5, <1>6, Still DEF AppChange, IInv, GameTypeOK, snapshot, play, control

LEMMA PublishStep == IInv /\ (\E t \in Thread : Publish(t)) => IInv'
<1> SUFFICES ASSUME IInv, NEW t \in Thread, Publish(t) PROVE IInv'
  OBVIOUS
<1>1. {msg[t]} \in SUBSET Update
  BY DEF Publish, IInv, GameTypeOK
<1>2. out' \in Seq(SUBSET Update) /\ msg' \in [Thread -> Update \cup {Nothing}]
  BY <1>1, Sent DEF Publish, IInv, GameTypeOK
<1>3. QED
  BY <1>2, Still DEF Publish, IInv, GameTypeOK, snapshot, play, control
--------------------------------------------------------------------------------
\* The server thread.
LEMMA HeadType ==
  ASSUME NEW S, NEW q \in Seq(S), q # <<>>
  PROVE  Head(q) \in S /\ Tail(q) \in Seq(S)
OBVIOUS

LEMMA ReceiveStep == IInv /\ Receive => IInv'
<1> SUFFICES ASSUME IInv, Receive PROVE IInv'
  OBVIOUS
<1>1. /\ snap' \in [Game -> Entry] /\ origin' \in {"app", "bridge"}
      /\ inbox' \in Seq([games : [Game -> Entry], origin : {"app", "bridge"}])
  <2>1. Head(inbox) \in [games : [Game -> Entry], origin : {"app", "bridge"}]
    BY HeadType DEF Receive, IInv, GameTypeOK
  <2>2. inbox' \in Seq([games : [Game -> Entry], origin : {"app", "bridge"}])
    BY DEF Receive, IInv, GameTypeOK
  <2>3. QED
    BY <2>1, <2>2 DEF Receive
<1> DEFINE unsettled == {h \in Game : snap'[h].status \notin {"absent", "ready", "downloading"}}
           settled == IF startup THEN {Told(g, "ready", snap'[g].version) : g \in unsettled} ELSE {}
<1>2. \A g \in Game : Told(g, "ready", snap'[g].version) \in Update
  BY <1>1, ToldType DEF Entry, Status
<1>3. settled \in SUBSET Update
  BY <1>2
<1>4. Send(settled)
  BY DEF Receive
<1>5. out' \in Seq(SUBSET Update)
  BY <1>3, <1>4, Sent DEF IInv
<1>6. /\ pc' \in [Thread -> Label] /\ job' \in [Thread -> Job] /\ inflight' \subseteq Game
      /\ ThreadsOK' /\ OneDownloadPerGame'
  <2>1. "received" \in Label /\ "received" \notin AtGame
    BY DEF Label, AtGame, Downloading
  <2>2. job' = [job EXCEPT !["server"] = job["server"]] /\ job["server"] \in Job
    BY Threads DEF Receive, IInv, GameTypeOK
  <2>3. pc' = [pc EXCEPT !["server"] = "received"] /\ UNCHANGED inflight
    BY DEF Receive, Goto
  <2>4. QED
    BY <2>1, <2>2, <2>3, Elsewhere
<1>7. QED
  BY <1>1, <1>5, <1>6 DEF Receive, IInv, GameTypeOK, play

\* A step of the server thread to a label at which it is at no game.
LEMMA ServerGoes ==
  ASSUME IInv, NEW l \in Label, l \notin AtGame, Goto("server", l), UNCHANGED <<job, inflight>>
  PROVE  /\ pc' \in [Thread -> Label] /\ job' \in [Thread -> Job] /\ inflight' \subseteq Game
         /\ ThreadsOK' /\ OneDownloadPerGame'
<1>1. job' = [job EXCEPT !["server"] = job["server"]] /\ job["server"] \in Job
  BY Threads DEF IInv, GameTypeOK
<1>2. QED
  BY <1>1, Elsewhere DEF Goto

LEMMA Least ==
  ASSUME NEW S \in SUBSET (1..4), S # {}
  PROVE  \E j \in S : \A k \in S : j <= k
<1>1. CASE 1 \in S
  BY <1>1
<1>2. CASE 1 \notin S /\ 2 \in S
  <2>1. \A k \in S : 2 <= k
    BY <1>2
  <2>2. QED
    BY <1>2, <2>1
<1>3. CASE 1 \notin S /\ 2 \notin S /\ 3 \in S
  <2>1. \A k \in S : 3 <= k
    BY <1>3
  <2>2. QED
    BY <1>3, <2>1
<1>4. CASE 1 \notin S /\ 2 \notin S /\ 3 \notin S
  <2>1. \A k \in S : k = 4
    BY <1>4
  <2>2. 4 \in S
    BY <2>1
  <2>3. QED
    BY <2>1, <2>2
<1>5. QED
  BY <1>1, <1>2, <1>3, <1>4

LEMMA AdvanceStep == IInv /\ Advance => IInv'
<1> SUFFICES ASSUME IInv, Advance PROVE IInv'
  OBVIOUS
<1> DEFINE Between == {"recover", "folders", "resume", "cleanup", "commands"}
<1>1. \A j \in 1..4 : Phases[j] \in Between
  BY DEF Phases
<1>2. \A phase \in Between : Visits(phase) \subseteq Game
  BY DEF Visits, Listed, IInv, GameTypeOK
<1>3. Between \subseteq Label /\ "idle" \in Label /\ (Between \cup {"idle"}) \cap AtGame = {}
  BY DEF Label, AtGame, Downloading
<1>4. \E l \in Between \cup {"idle"} :
        Goto("server", l) /\ todo' \subseteq Game /\ startup' \in BOOLEAN
  <2>1. PICK i \in 0..4 :
          LET rest == {j \in i + 1 .. 4 : Visits(Phases[j]) # {}}
          IN  IF rest = {}
              THEN Goto("server", "idle") /\ startup' = FALSE /\ todo' = {}
              ELSE LET j == CHOOSE j \in rest : \A k \in rest : j <= k
                   IN  Goto("server", Phases[j]) /\ todo' = Visits(Phases[j]) /\ UNCHANGED startup
    BY DEF Advance
  <2> DEFINE rest == {j \in i + 1 .. 4 : Visits(Phases[j]) # {}}
             next == CHOOSE j \in rest : \A k \in rest : j <= k
  <2>2. CASE rest = {}
    BY <2>1, <2>2
  <2>3. CASE rest # {}
    <3>1. Goto("server", Phases[next]) /\ todo' = Visits(Phases[next]) /\ UNCHANGED startup
      BY <2>1, <2>3
    <3>2. rest \in SUBSET (1..4)
      OBVIOUS
    <3>3. \E j \in rest : \A k \in rest : j <= k
      BY <2>3, <3>2, Least
    <3> HIDE DEF rest
    <3>4. next \in rest
      BY <3>3
    <3>5. next \in 1..4
      BY <3>2, <3>4
    <3>6. QED
      BY <1>1, <1>2, <3>1, <3>5 DEF IInv, GameTypeOK
  <2>4. QED
    BY <2>2, <2>3
<1>5. PICK l \in Between \cup {"idle"} :
        Goto("server", l) /\ todo' \subseteq Game /\ startup' \in BOOLEAN
  BY <1>4
<1>6. UNCHANGED <<job, inflight>>
  BY DEF Advance
<1>7. /\ pc' \in [Thread -> Label] /\ job' \in [Thread -> Job] /\ inflight' \subseteq Game
      /\ ThreadsOK' /\ OneDownloadPerGame'
  BY <1>3, <1>5, <1>6, ServerGoes
<1>8. QED
  BY <1>5, <1>7 DEF Advance, IInv, GameTypeOK, cloud, outside, play
--------------------------------------------------------------------------------
\* The server thread at a game.
LEMMA VisitType ==
  ASSUME IInv, NEW phase, NEW g, Visit(phase, g)
  PROVE  g \in Game /\ todo' \subseteq Game
BY DEF IInv, GameTypeOK, Visit

LEMMA RecoverStep == \A g \in Game : IInv /\ Recover(g) => IInv'
<1> SUFFICES ASSUME IInv, NEW g \in Game, Recover(g) PROVE IInv'
  OBVIOUS
<1>1. snap[g].version \in 0..MaxVersion
  BY DEF IInv, GameTypeOK, Entry
<1>2. todo' \subseteq Game
  BY VisitType DEF Recover
<1>3. CASE Missing(g)
  <2>1. {Told(g, "downloading", snap[g].version)} \in SUBSET Update
    BY <1>1, ToldType DEF Status
  <2>2. Send({Told(g, "downloading", snap[g].version)})
    BY <1>3 DEF Recover
  <2>3. out' \in Seq(SUBSET Update)
    BY <2>1, <2>2, Sent DEF IInv
  <2>4. StartDownload(g, snap[g].version, "recovery") /\ marked' = marked \cup {g}
    BY <1>3 DEF Recover
  <2>5. QED
    BY <1>1, <1>2, <2>3, <2>4, Started DEF Recover, IInv, GameTypeOK, outside, snapshot, play
<1>4. CASE ~Missing(g)
  BY <1>2, <1>4, Still DEF Recover, IInv, GameTypeOK, outside, snapshot, play
<1>5. QED
  BY <1>3, <1>4

LEMMA RemoveFolderStep == \A g \in Game : IInv /\ RemoveFolder(g) => IInv'
<1> SUFFICES ASSUME IInv, NEW g \in Game, RemoveFolder(g) PROVE IInv'
  OBVIOUS
<1>1. todo' \subseteq Game
  BY VisitType DEF RemoveFolder
<1>2. local' \in [Game -> 0..MaxVersion] /\ cache' \in [Game -> Entry]
  BY Constants DEF RemoveFolder, IInv, GameTypeOK
<1>3. running' \in Game \cup {Nothing}
  BY DEF RemoveFolder, Terminate, IInv, GameTypeOK
<1>4. QED
  BY <1>1, <1>2, <1>3, Still DEF RemoveFolder, IInv, GameTypeOK, cloud, outside, snapshot

LEMMA ResumeStep == \A g \in Game : IInv /\ Resume(g) => IInv'
<1> SUFFICES ASSUME IInv, NEW g \in Game, Resume(g) PROVE IInv'
  OBVIOUS
<1>1. snap[g].version \in 0..MaxVersion
  BY DEF IInv, GameTypeOK, Entry
<1>2. todo' \subseteq Game
  BY VisitType DEF Resume
<1>3. CASE local[g] >= snap[g].version
  <2>1. RequestFrom(cache, "server", g, "ready") /\ UNCHANGED <<control, inflight>>
    BY <1>3 DEF Resume, RequestStatus, control
  <2>2. cache' \in [Game -> Entry] /\ msg' \in [Thread -> Update \cup {Nothing}]
    BY <2>1, Requested, Threads DEF IInv, GameTypeOK, Status
  <2>3. marked' \subseteq Game
    BY <1>3 DEF Resume, IInv, GameTypeOK
  <2>4. QED
    BY <1>2, <2>1, <2>2, <2>3, Still DEF Resume, IInv, GameTypeOK, cloud, outside, snapshot, play
<1>4. CASE ~(local[g] >= snap[g].version)
  <2>1. /\ StartDownload(g, snap[g].version, "resume") /\ marked' = marked \cup {g}
        /\ UNCHANGED <<cache, msg>>
    BY <1>4 DEF Resume
  <2>2. QED
    BY <1>1, <1>2, <2>1, Started DEF Resume, IInv, GameTypeOK, cloud, outside, snapshot, play
<1>5. QED
  BY <1>3, <1>4

LEMMA PassStep == \A g \in Game : IInv /\ (Cleanup(g) \/ IgnoreEcho(g)) => IInv'
<1> SUFFICES ASSUME IInv, NEW g \in Game, Cleanup(g) \/ IgnoreEcho(g) PROVE IInv'
  OBVIOUS
<1>1. todo' \subseteq Game /\ marked' \subseteq Game
  BY VisitType DEF Cleanup, IgnoreEcho, IInv, GameTypeOK
<1>2. QED
  BY <1>1, Still DEF Cleanup, IgnoreEcho, IInv, GameTypeOK, cloud, outside, snapshot, play

LEMMA ForgottenType ==
  ASSUME IInv, NEW g \in Game
  PROVE  Forgotten(g) \in [Game -> Entry]
BY Constants DEF Forgotten, IInv, GameTypeOK

LEMMA InstallDoneStep == \A g \in Game : IInv /\ InstallDone(g) => IInv'
<1> SUFFICES ASSUME IInv, NEW g \in Game, InstallDone(g) PROVE IInv'
  OBVIOUS
<1>1. todo' \subseteq Game /\ marked' \subseteq Game
  BY VisitType DEF InstallDone, IInv, GameTypeOK
<1>2. RequestFrom(Forgotten(g), "server", g, "ready")
  BY DEF InstallDone
<1>3. cache' \in [Game -> Entry] /\ msg' \in [Thread -> Update \cup {Nothing}]
  BY <1>2, Requested, ForgottenType, Threads DEF IInv, Status
<1>4. QED
  BY <1>1, <1>3, Still DEF InstallDone, IInv, GameTypeOK, cloud, outside, snapshot, play

LEMMA InstallStep == \A g \in Game : IInv /\ Install(g) => IInv'
<1> SUFFICES ASSUME IInv, NEW g \in Game, Install(g) PROVE IInv'
  OBVIOUS
<1>1. todo' \subseteq Game /\ marked' \subseteq Game
  BY VisitType DEF Install, IInv, GameTypeOK
<1>2. snap[g].version \in 0..MaxVersion
  BY DEF IInv, GameTypeOK, Entry
<1>3. cache' \in [Game -> Entry] /\ StartDownload(g, snap[g].version, "command")
  BY ForgottenType DEF Install
<1>4. QED
  BY <1>1, <1>2, <1>3, Started DEF Install, IInv, GameTypeOK, cloud, outside, snapshot, play

LEMMA StopStep == \A g \in Game : IInv /\ Stop(g) => IInv'
<1> SUFFICES ASSUME IInv, NEW g \in Game, Stop(g) PROVE IInv'
  OBVIOUS
<1>1. todo' \subseteq Game /\ marked' \subseteq Game
  BY VisitType DEF Stop, IInv, GameTypeOK
<1>2. /\ running' \in Game \cup {Nothing} /\ cache' \in [Game -> Entry]
      /\ msg' \in [Thread -> Update \cup {Nothing}]
  <2>1. CASE running = g /\ snap[g].status = "ready"
    <3>1. Terminate(g) /\ RequestFrom(cache, "server", g, "ready")
      BY <2>1 DEF Stop, RequestStatus
    <3>2. QED
      BY <3>1, Requested, Threads DEF Terminate, IInv, GameTypeOK, Status
  <2>2. CASE ~(running = g /\ snap[g].status = "ready")
    BY <2>2 DEF Stop, IInv, GameTypeOK
  <2>3. QED
    BY <2>1, <2>2
<1>3. QED
  BY <1>1, <1>2, Still DEF Stop, IInv, GameTypeOK, cloud, outside, snapshot

LEMMA PlayStep == \A g \in Game : IInv /\ Play(g) => IInv'
<1> SUFFICES ASSUME IInv, NEW g \in Game, Play(g) PROVE IInv'
  OBVIOUS
<1>1. todo' \subseteq Game /\ marked' \subseteq Game
  BY VisitType DEF Play, IInv, GameTypeOK
<1>2. CASE UNCHANGED <<running, cache, control, msg>>
  BY <1>1, <1>2, Still DEF Play, IInv, GameTypeOK, cloud, outside, snapshot
<1>3. CASE /\ Goto("server", "play")
           /\ job' = [job EXCEPT !["server"] = [game |-> g, version |-> snap[g].version, kind |-> "play"]]
           /\ running' = Nothing
           /\ IF running # Nothing THEN RequestStatus("server", running, "ready")
                                   ELSE UNCHANGED <<cache, msg>>
  <2> DEFINE j == [game |-> g, version |-> snap[g].version, kind |-> "play"]
  <2>1. j \in Job /\ j.game \in Game
    BY DEF Job, IInv, GameTypeOK, Entry
  <2>2. /\ pc' \in [Thread -> Label] /\ job' \in [Thread -> Job] /\ inflight' \subseteq Game
        /\ ThreadsOK' /\ OneDownloadPerGame'
    BY <1>3, <2>1, Elsewhere DEF Play, Goto, Label
  <2>3. cache' \in [Game -> Entry] /\ msg' \in [Thread -> Update \cup {Nothing}]
    <3>1. CASE running = Nothing
      BY <1>3, <3>1 DEF IInv, GameTypeOK
    <3>2. CASE running # Nothing
      <4>1. running \in Game /\ RequestFrom(cache, "server", running, "ready")
        BY <1>3, <3>2 DEF IInv, GameTypeOK, RequestStatus
      <4>2. QED
        BY <4>1, Requested, Threads DEF IInv, GameTypeOK, Status
    <3>3. QED
      BY <3>1, <3>2
  <2>4. QED
    BY <1>1, <1>3, <2>2, <2>3 DEF Play, IInv, GameTypeOK, cloud, outside, snapshot
<1>4. QED
  BY <1>2, <1>3 DEF Play
--------------------------------------------------------------------------------
\* The server thread at a remote "playing".
LEMMA PlayMissingStep == IInv /\ PlayMissing => IInv'
<1> SUFFICES ASSUME IInv, PlayMissing PROVE IInv'
  OBVIOUS
<1>1. job["server"] \in Job /\ job["server"].game \in Game
  BY Threads DEF PlayMissing, At, AtGame, IInv, GameTypeOK, ThreadsOK
<1>2. job' = [job EXCEPT !["server"] = job["server"]]
  BY Threads DEF PlayMissing, IInv, GameTypeOK
<1>3. \E l \in {"check", "launch"} : pc' = [pc EXCEPT !["server"] = l]
  BY DEF PlayMissing, Goto
<1>4. /\ pc' \in [Thread -> Label] /\ job' \in [Thread -> Job] /\ inflight' \subseteq Game
      /\ ThreadsOK' /\ OneDownloadPerGame'
  BY <1>1, <1>2, <1>3, Elsewhere DEF PlayMissing, Label
<1>5. cache' \in [Game -> Entry] /\ msg' \in [Thread -> Update \cup {Nothing}]
  <2>1. CASE Missing(job["server"].game)
    <3>1. RequestFrom(cache, "server", job["server"].game, "downloading")
      BY <2>1 DEF PlayMissing, RequestStatus
    <3>2. QED
      BY <1>1, <3>1, Requested, Threads DEF IInv, GameTypeOK, Status
  <2>2. CASE ~Missing(job["server"].game)
    BY <2>2 DEF PlayMissing, IInv, GameTypeOK
  <2>3. QED
    BY <2>1, <2>2
<1>6. QED
  BY <1>4, <1>5 DEF PlayMissing, IInv, GameTypeOK, cloud, outside, snapshot, play

LEMMA LaunchStep == IInv /\ Launch => IInv'
<1> SUFFICES ASSUME IInv, Launch PROVE IInv'
  OBVIOUS
<1>1. job["server"].game \in Game
  BY Threads DEF Launch, At, AtGame, IInv, ThreadsOK
<1>2. /\ pc' \in [Thread -> Label] /\ job' \in [Thread -> Job] /\ inflight' \subseteq Game
      /\ ThreadsOK' /\ OneDownloadPerGame'
  <2>1. "commands" \in Label /\ "commands" \notin AtGame
    BY DEF Label, AtGame, Downloading
  <2>2. QED
    BY <2>1, Constants, Elsewhere DEF Launch, Goto
<1>3. launch' \in Game \cup {Nothing} /\ todo' \subseteq Game
  BY <1>1 DEF Launch, IInv, GameTypeOK
<1>4. QED
  BY <1>2, <1>3 DEF Launch, IInv, GameTypeOK, cloud, outside, snapshot

LEMMA RemovedType ==
  ASSUME NEW g \in Game
  PROVE  Removed(g) \in SUBSET Update
BY ToldType, Constants DEF Removed

LEMMA PlayFailsStep == IInv /\ PlayFails => IInv'
<1> SUFFICES ASSUME IInv, PlayFails PROVE IInv'
  OBVIOUS
<1>1. job["server"].game \in Game
  BY Threads DEF PlayFails, At, AtGame, Downloading, IInv, ThreadsOK
<1>2. /\ pc' \in [Thread -> Label] /\ job' \in [Thread -> Job] /\ inflight' \subseteq Game
      /\ ThreadsOK' /\ OneDownloadPerGame'
  <2>1. "commands" \in Label /\ "commands" \notin AtGame
    BY DEF Label, AtGame, Downloading
  <2>2. QED
    BY <2>1, Constants, Elsewhere DEF PlayFails, Goto
<1>3. out' \in Seq(SUBSET Update) /\ marked' \subseteq Game
  <2>1. CASE UNCHANGED <<out, marked>>
    BY <2>1 DEF IInv, GameTypeOK
  <2>2. CASE Send(Removed(job["server"].game)) /\ marked' = marked \ {job["server"].game}
    BY <1>1, <2>2, RemovedType, Sent DEF IInv, GameTypeOK
  <2>3. QED
    BY <2>1, <2>2 DEF PlayFails
<1>4. QED
  BY <1>2, <1>3 DEF PlayFails, IInv, GameTypeOK, outside, snapshot, play
--------------------------------------------------------------------------------
\* Check and Fetch of any thread move it among the labels of a download, and the
\* server thread and the main loop also to labels of their own.
LEMMA CheckMoves ==
  ASSUME IInv, NEW t \in Thread, NEW ok, Check(t, ok)
  PROVE  /\ pc[t] = "check" /\ job[t].game \in Game
         /\ \E l \in {ok, "fetch"} : pc' = [pc EXCEPT ![t] = l]
         /\ UNCHANGED <<job, inflight>>
         /\ pc' \in [Thread -> Label] /\ ThreadsOK' /\ OneDownloadPerGame' => IInv'
<1>1. pc[t] = "check" /\ "check" \in AtGame
  BY DEF Check, At, AtGame, Downloading
<1>2. job[t].game \in Game
  BY <1>1 DEF IInv, ThreadsOK
<1>3. \E l \in {ok, "fetch"} : pc' = [pc EXCEPT ![t] = l]
  BY DEF Check, Goto
<1>4. pc' \in [Thread -> Label] /\ ThreadsOK' /\ OneDownloadPerGame' => IInv'
  BY DEF Check, IInv, GameTypeOK, cloud, outside, snapshot, play
<1>5. QED
  BY <1>1, <1>2, <1>3, <1>4 DEF Check

LEMMA FetchMoves ==
  ASSUME IInv, NEW t \in Thread, NEW ok, NEW failed, NEW gone, Fetch(t, ok, failed, gone)
  PROVE  /\ pc[t] = "fetch" /\ job[t].game \in Game
         /\ \E l \in {ok, failed, gone} : pc' = [pc EXCEPT ![t] = l]
         /\ UNCHANGED <<job, inflight>>
         /\ pc' \in [Thread -> Label] /\ ThreadsOK' /\ OneDownloadPerGame' => IInv'
<1>1. pc[t] = "fetch" /\ "fetch" \in AtGame
  BY DEF Fetch, At, AtGame, Downloading
<1>2. job[t].game \in Game
  BY <1>1 DEF IInv, ThreadsOK
<1>3. \E l \in {ok, failed, gone} : pc' = [pc EXCEPT ![t] = l]
  BY DEF Fetch, Goto
<1>4. local' \in [Game -> 0..MaxVersion]
  <2>1. CASE UNCHANGED local
    BY <2>1 DEF IInv, GameTypeOK
  <2>2. CASE \E v \in {u \in Version : u >= job[t].version} :
               local' = [local EXCEPT ![job[t].game] = v]
    BY <2>2, Constants DEF IInv, GameTypeOK
  <2>3. QED
    BY <2>1, <2>2 DEF Fetch
<1>5. pc' \in [Thread -> Label] /\ ThreadsOK' /\ OneDownloadPerGame' => IInv'
  BY <1>4 DEF Fetch, IInv, GameTypeOK, cloud, outside, snapshot, play
<1>6. QED
  BY <1>1, <1>2, <1>3, <1>5 DEF Fetch

LEMMA LoopDownloadStep ==
  ASSUME IInv, NEW t \in {"server", "main"},
         \/ \E ok \in {"launch", "run"} : Check(t, ok)
         \/ Fetch(t, "launch", "failed", "gone")
         \/ Fetch(t, "run", "run", "quit")
  PROVE  IInv'
<1>1. t \in Thread
  BY Threads
<1>2. /\ job[t].game \in Game
      /\ \E l \in AtGame : pc' = [pc EXCEPT ![t] = l]
      /\ UNCHANGED <<job, inflight>>
      /\ pc' \in [Thread -> Label] /\ ThreadsOK' /\ OneDownloadPerGame' => IInv'
  <2>1. ASSUME NEW ok \in {"launch", "run"}, Check(t, ok) PROVE <1>2!1 /\ <1>2!2 /\ <1>2!3 /\ <1>2!4
    BY <1>1, <2>1, CheckMoves DEF AtGame, Downloading
  <2>2. ASSUME Fetch(t, "launch", "failed", "gone") PROVE <1>2!1 /\ <1>2!2 /\ <1>2!3 /\ <1>2!4
    BY <1>1, <2>2, FetchMoves DEF AtGame, Downloading
  <2>3. ASSUME Fetch(t, "run", "run", "quit") PROVE <1>2!1 /\ <1>2!2 /\ <1>2!3 /\ <1>2!4
    BY <1>1, <2>3, FetchMoves DEF AtGame, Downloading
  <2>4. QED
    BY <2>1, <2>2, <2>3
<1>3. job' = [job EXCEPT ![t] = job[t]] /\ job[t] \in Job
  BY <1>1, <1>2 DEF IInv, GameTypeOK
<1>4. AtGame \subseteq Label
  BY DEF AtGame, Downloading, Label
<1>5. QED
  BY <1>2, <1>3, <1>4, Elsewhere
--------------------------------------------------------------------------------
\* A thread of download_game_async.
LEMMA WorkerDownloadStep ==
  ASSUME IInv, NEW w \in Worker, Check(w, "done") \/ Fetch(w, "done", "failed", "gone")
  PROVE  IInv'
<1>1. w \in Thread
  BY Threads
<1>2. CASE Check(w, "done")
  BY <1>1, <1>2, CheckMoves, Along DEF Downloading
<1>3. CASE Fetch(w, "done", "failed", "gone")
  BY <1>1, <1>3, FetchMoves, Along DEF Downloading
<1>4. QED
  BY <1>2, <1>3

LEMMA OnSuccessStep == \A w \in Worker : IInv /\ OnSuccess(w) => IInv'
<1> SUFFICES ASSUME IInv, NEW w \in Worker, OnSuccess(w) PROVE IInv'
  OBVIOUS
<1>1. /\ w \in Thread /\ pc[w] = "done" /\ job[w].game \in Game
      /\ job[w].version \in 0..MaxVersion
  BY Threads DEF OnSuccess, At, AtGame, Downloading, IInv, GameTypeOK, ThreadsOK, Job
<1>2. /\ pc' \in [Thread -> Label] /\ job' \in [Thread -> Job] /\ inflight' \subseteq Game
      /\ ThreadsOK' /\ OneDownloadPerGame'
  BY <1>1, Along DEF OnSuccess, Goto, Downloading
<1>3. /\ out' \in Seq(SUBSET Update) /\ cache' \in [Game -> Entry]
      /\ msg' \in [Thread -> Update \cup {Nothing}]
  <2>1. CASE job[w].kind = "recovery"
    <3>1. {Told(job[w].game, "ready", job[w].version)} \in SUBSET Update
      BY <1>1, ToldType DEF Status
    <3>2. QED
      BY <2>1, <3>1, Sent DEF OnSuccess, IInv, GameTypeOK
  <2>2. CASE job[w].kind # "recovery"
    <3>1. RequestFrom(cache, w, job[w].game, "ready") /\ UNCHANGED out
      BY <2>2 DEF OnSuccess, RequestStatus
    <3>2. QED
      BY <1>1, <3>1, Requested DEF IInv, GameTypeOK, Status
  <2>3. QED
    BY <2>1, <2>2
<1>4. QED
  BY <1>2, <1>3 DEF OnSuccess, IInv, GameTypeOK, outside, snapshot, play

LEMMA OnFailureStep == \A w \in Worker : IInv /\ OnFailure(w) => IInv'
<1> SUFFICES ASSUME IInv, NEW w \in Worker, OnFailure(w) PROVE IInv'
  OBVIOUS
<1>1. w \in Thread /\ pc[w] \in {"failed", "gone"} /\ job[w].game \in Game
  BY Threads DEF OnFailure, At, AtGame, Downloading, IInv, ThreadsOK
<1>2. /\ pc' \in [Thread -> Label] /\ job' \in [Thread -> Job] /\ inflight' \subseteq Game
      /\ ThreadsOK' /\ OneDownloadPerGame'
  BY <1>1, Along DEF OnFailure, Goto, Downloading
<1>3. /\ out' \in Seq(SUBSET Update) /\ cache' \in [Game -> Entry]
      /\ msg' \in [Thread -> Update \cup {Nothing}]
  <2>1. CASE pc[w] = "gone"
    <3>1. Send(Removed(job[w].game)) /\ UNCHANGED <<cache, msg>>
      BY <2>1 DEF OnFailure
    <3>2. QED
      BY <1>1, <3>1, RemovedType, Sent DEF IInv, GameTypeOK
  <2>2. CASE pc[w] = "failed" /\ job[w].kind = "recovery"
    BY <2>2 DEF OnFailure, IInv, GameTypeOK
  <2>3. CASE pc[w] = "failed" /\ job[w].kind # "recovery"
    <3>1. RequestFrom(cache, w, job[w].game, "error") /\ UNCHANGED out
      BY <2>3 DEF OnFailure, RequestStatus
    <3>2. QED
      BY <1>1, <3>1, Requested DEF IInv, GameTypeOK, Status
  <2>4. QED
    BY <1>1, <2>1, <2>2, <2>3
<1>4. QED
  BY <1>2, <1>3 DEF OnFailure, IInv, GameTypeOK, outside, snapshot, play

LEMMA UnmarkStep == \A w \in Worker : IInv /\ Unmark(w) => IInv'
<1> SUFFICES ASSUME IInv, NEW w \in Worker, Unmark(w) PROVE IInv'
  OBVIOUS
<1>1. /\ pc' \in [Thread -> Label] /\ job' \in [Thread -> Job] /\ inflight' \subseteq Game
      /\ ThreadsOK' /\ OneDownloadPerGame'
  BY Along DEF Unmark, At, Goto, Downloading
<1>2. marked' \subseteq Game
  BY DEF Unmark, IInv, GameTypeOK
<1>3. QED
  BY <1>1, <1>2 DEF Unmark, IInv, GameTypeOK, cloud, outside, snapshot, play

\* The end of a download takes its game, and no other one, out of inflight.
LEMMA ReleaseStep == \A w \in Worker : IInv /\ Release(w) => IInv'
<1> SUFFICES ASSUME IInv, NEW w \in Worker, Release(w) PROVE IInv'
  OBVIOUS
<1>1. w \in Thread /\ pc[w] = "release"
  BY Threads DEF Release, At
<1>2. /\ pc' = [pc EXCEPT ![w] = "idle"] /\ job' = [job EXCEPT ![w] = NoJob]
      /\ inflight' = inflight \ {job[w].game}
  BY DEF Release, Goto
<1>3. /\ pc' \in [Thread -> Label] /\ job' \in [Thread -> Job] /\ inflight' \subseteq Game
  BY <1>1, <1>2, Constants DEF IInv, GameTypeOK, Label
<1>4. ThreadsOK'
  BY <1>1, <1>2, Threads DEF IInv, GameTypeOK, ThreadsOK, AtGame, Downloading
<1>5. \A x \in Worker : /\ Live(x)' <=> Live(x) /\ x # w
                        /\ x # w => job'[x] = job[x]
  BY <1>1, <1>2, Threads DEF IInv, GameTypeOK, Live
<1>6. Live(w)
  BY <1>1 DEF Live
<1>7. OneDownloadPerGame'
  BY <1>2, <1>5, <1>6 DEF IInv, OneDownloadPerGame
<1>8. QED
  BY <1>3, <1>4, <1>7 DEF Release, IInv, GameTypeOK, cloud, outside, snapshot, play

LEMMA DownloadStep == \A w \in Worker : IInv /\ Download(w) => IInv'
BY WorkerDownloadStep, OnSuccessStep, OnFailureStep, UnmarkStep, ReleaseStep DEF Download
--------------------------------------------------------------------------------
\* The main loop.
LEMMA StartStep ==
  ASSUME IInv, NEW g \in Game, Start(g),
         launch' \in Game \cup {Nothing}, changes' \in 0..MaxChange
  PROVE  IInv'
<1>1. [game |-> g, version |-> 1, kind |-> "play"] \in Job
  BY Constants DEF Job
<1>2. /\ pc' \in [Thread -> Label] /\ job' \in [Thread -> Job] /\ inflight' \subseteq Game
      /\ ThreadsOK' /\ OneDownloadPerGame'
  BY <1>1, Elsewhere DEF Start, Goto, Label
<1>3. QED
  BY <1>2 DEF Start, IInv, GameTypeOK, snapshot

LEMMA BeginStep == IInv /\ (LaunchGame \/ UserStarts) => IInv'
<1> SUFFICES ASSUME IInv, LaunchGame \/ UserStarts PROVE IInv'
  OBVIOUS
<1>1. changes' \in 0..MaxChange /\ launch' \in Game \cup {Nothing}
  BY GameAssumption DEF LaunchGame, UserStarts, IInv, GameTypeOK
<1>2. QED
  BY <1>1, StartStep DEF LaunchGame, UserStarts

LEMMA RunGameStep == IInv /\ RunGame => IInv'
<1> SUFFICES ASSUME IInv, RunGame PROVE IInv'
  OBVIOUS
<1>1. job["main"].game \in Game
  BY Threads DEF RunGame, At, AtGame, IInv, ThreadsOK
<1>2. /\ pc' \in [Thread -> Label] /\ job' \in [Thread -> Job] /\ inflight' \subseteq Game
      /\ ThreadsOK' /\ OneDownloadPerGame'
  <2>1. "idle" \in Label /\ "idle" \notin AtGame
    BY DEF Label, AtGame, Downloading
  <2>2. QED
    BY <2>1, Constants, Elsewhere DEF RunGame, Goto
<1>3. /\ running' \in Game \cup {Nothing} /\ cache' \in [Game -> Entry]
      /\ msg' \in [Thread -> Update \cup {Nothing}]
  <2>1. CASE UNCHANGED <<running, cache, msg>>
    BY <2>1 DEF IInv, GameTypeOK
  <2>2. CASE running' = job["main"].game /\ RequestStatus("main", job["main"].game, "playing")
    <3>1. RequestFrom(cache, "main", job["main"].game, "playing")
      BY <2>2 DEF RequestStatus
    <3>2. QED
      BY <1>1, <2>2, <3>1, Requested, Threads DEF IInv, GameTypeOK, Status
  <2>3. QED
    BY <2>1, <2>2 DEF RunGame
<1>4. QED
  BY <1>2, <1>3 DEF RunGame, IInv, GameTypeOK, cloud, outside, snapshot

LEMMA EndGameStep == IInv /\ EndGame => IInv'
<1> SUFFICES ASSUME IInv, EndGame PROVE IInv'
  OBVIOUS
<1>1. running \in Game /\ RequestFrom(cache, "main", running, "ready")
  BY DEF EndGame, IInv, GameTypeOK, RequestStatus
<1>2. cache' \in [Game -> Entry] /\ msg' \in [Thread -> Update \cup {Nothing}]
  BY <1>1, Requested, Threads DEF IInv, GameTypeOK, Status
<1>3. QED
  BY <1>2, Still DEF EndGame, IInv, GameTypeOK, cloud, outside, snapshot

LEMMA MainLoopStep == IInv /\ MainLoop => IInv'
BY BeginStep, LoopDownloadStep, RunGameStep DEF MainLoop

LEMMA ServerStep == IInv /\ Server => IInv'
<1> SUFFICES ASSUME IInv, Server PROVE IInv'
  OBVIOUS
<1>1. CASE Receive \/ Advance
  BY <1>1, ReceiveStep, AdvanceStep
<1>2. ASSUME NEW g \in Game,
             \/ Recover(g) \/ RemoveFolder(g) \/ Resume(g) \/ Cleanup(g)
             \/ IgnoreEcho(g) \/ InstallDone(g) \/ Install(g) \/ Stop(g) \/ Play(g)
      PROVE  IInv'
  BY <1>2, RecoverStep, RemoveFolderStep, ResumeStep, PassStep, InstallDoneStep, InstallStep,
     StopStep, PlayStep
<1>3. CASE PlayMissing \/ Launch \/ PlayFails
  BY <1>3, PlayMissingStep, LaunchStep, PlayFailsStep
<1>4. CASE Check("server", "launch") \/ Fetch("server", "launch", "failed", "gone")
  BY <1>4, LoopDownloadStep
<1>5. QED
  BY <1>1, <1>2, <1>3, <1>4 DEF Server
--------------------------------------------------------------------------------
THEOREM Inductive == IInv /\ [GameNext]_gvars => IInv'
<1> SUFFICES ASSUME IInv, [GameNext]_gvars PROVE IInv'
  OBVIOUS
<1>1. CASE Server \/ MainLoop
  BY <1>1, ServerStep, MainLoopStep
<1>2. CASE UserStarts \/ EndGame
  BY <1>2, BeginStep, EndGameStep
<1>3. CASE RowTakes \/ AppChange
  BY <1>3, RowTakesStep, AppChangeStep
<1>4. CASE \E w \in Worker : Download(w)
  BY <1>4, DownloadStep
<1>5. CASE \E t \in Thread : Publish(t)
  BY <1>5, PublishStep
<1>6. CASE UNCHANGED gvars
  BY <1>6, Still DEF gvars, cloud, outside, snapshot, play, IInv, GameTypeOK
<1>7. QED
  BY <1>1, <1>2, <1>3, <1>4, <1>5, <1>6 DEF GameNext

\* The state of every thread stays typed (runtime/remote_device_config.py,
\* game_lifecycle.py).
THEOREM GameTypes == GameSpec => []GameTypeOK
<1>1. IInv => GameTypeOK
  BY DEF IInv
<1>2. QED
  BY Initial, Inductive, <1>1, PTL DEF GameSpec

\* No game is downloaded twice at once in the background, and inflight is the
\* games that are (download_game_async).
THEOREM OneDownload == GameSpec => []OneDownloadPerGame
<1>1. IInv => OneDownloadPerGame
  BY DEF IInv
<1>2. QED
  BY Initial, Inductive, <1>1, PTL DEF GameSpec
================================================================================
