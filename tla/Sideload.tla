-------------------------------- MODULE Sideload -------------------------------
(***************************************************************************)
(* SideloadSessionManager (runtime/sideload_session.py) and the two places *)
(* of main.py and runtime/display_loop.py that suspend and restore the     *)
(* production widgets.                                                     *)
(*                                                                         *)
(* Sessions are numbered in order of creation; 0 is None.  The process a   *)
(* session starts with has generation 0, each update_params starts the     *)
(* next one; a process is the pair <<session, generation>>.  The shared    *)
(* memory of a session has one name, whatever its generation, and is       *)
(* unlinked by that name.  Requests run in worker threads, so every step   *)
(* between two holds of _lock interleaves with every other thread.  The    *)
(* expiry watchdog is one more thread that stops the active session.  All  *)
(* requests carry the id of the active session.                            *)
(***************************************************************************)
EXTENDS Naturals

CONSTANTS
  Handler,     \* worker threads of requests, and the expiry watchdog
  MaxSession,  \* bound: sessions created in a behaviour
  MaxGen       \* bound: updates of one session

ASSUME SideloadAssumption == MaxSession \in Nat \ {0} /\ MaxGen \in Nat

Session  == 1..MaxSession
Process  == Session \X (0..MaxGen)
Handlers == {"handler"} \X Handler
Observer(n) == <<"observer", n>>
Thread   == Handlers \cup {Observer(n) : n \in Session}
NoThread == <<"none", 0>>

VARIABLES
  sessions,    \* how many sessions have been created
  active,      \* _active
  closed,      \* the closed flag of a session
  generation,  \* process_generation of a session
  current,     \* the generation of session.process
  alive,       \* app processes that run
  segments,    \* the sessions under whose name there is a shared memory segment
  watched,     \* processes with a thread _watch_process waiting for their exit
  startLock,   \* the holder of _start_lock
  pc,          \* where a thread is
  sess,        \* the session it works on
  production,  \* the widget processes: "running" or "suspended"
  reload,      \* ctx.reload_conf
  loop,        \* the main loop: "top", or where it is in init_widgets, "init" or "flag"
  exits        \* history: sideload_exit events of a session

manager == <<sessions, active, closed, generation, current>>
system  == <<alive, segments, watched>>
display == <<production, reload, loop>>
svars   == <<manager, system, startLock, pc, sess, display, exits>>
--------------------------------------------------------------------------------
SideloadInit ==
  /\ sessions = 0 /\ active = 0
  /\ closed = [n \in Session |-> FALSE]
  /\ generation = [n \in Session |-> 0]
  /\ current = [n \in Session |-> 0]
  /\ alive = {} /\ segments = {} /\ watched = {}
  /\ startLock = NoThread
  /\ pc = [t \in Thread |-> "idle"]
  /\ sess = [t \in Thread |-> 0]
  /\ production = "running" /\ reload = FALSE /\ loop = "top"
  /\ exits = [n \in Session |-> 0]

Goto(t, label) == pc' = [pc EXCEPT ![t] = label]

\* The call returns or raises; start and update_params release _start_lock.
Return(t) ==
  /\ Goto(t, "idle")
  /\ startLock' = IF startLock = t THEN NoThread ELSE startLock

TakesStartLock(t) == startLock = NoThread /\ startLock' = t

Proc(n) == <<n, current[n]>>
--------------------------------------------------------------------------------
\* start, up to the read of the session to replace.
Start_NoLock(t) ==
  /\ pc[t] = "idle"
  /\ sessions < MaxSession
  /\ sess' = [sess EXCEPT ![t] = active]
  /\ Goto(t, IF active = 0 THEN "launch" ELSE "replace")
  /\ UNCHANGED <<manager, system, startLock, display, exits>>

Start(t) ==
  /\ pc[t] = "idle"
  /\ sessions < MaxSession
  /\ TakesStartLock(t)
  /\ sess' = [sess EXCEPT ![t] = active]
  /\ Goto(t, IF active = 0 THEN "launch" ELSE "replace")
  /\ UNCHANGED <<manager, system, display, exits>>

\* stop, called by start to replace a session or after a failed suspension, looks
\* the session up again and raises if it has ended meanwhile.
StopAgain(t) ==
  /\ pc[t] \in {"replace", "failed"}
  /\ IF active = sess[t]
     THEN Goto(t, IF pc[t] = "replace" THEN "kill, then launch" ELSE "kill") /\ UNCHANGED startLock
     ELSE Return(t)
  /\ UNCHANGED <<manager, system, sess, display, exits>>

\* stop as a request or on expiry.
Stop(t) ==
  /\ pc[t] = "idle"
  /\ active # 0
  /\ sess' = [sess EXCEPT ![t] = active]
  /\ Goto(t, "kill")
  /\ UNCHANGED <<manager, system, startLock, display, exits>>

\* The process the session has now is terminated.
Kill(t) ==
  /\ pc[t] \in {"kill", "kill, then launch"}
  /\ alive' = alive \ {Proc(sess[t])}
  /\ Goto(t, IF pc[t] = "kill" THEN "finish" ELSE "finish, then launch")
  /\ UNCHANGED <<manager, segments, watched, startLock, sess, display, exits>>
--------------------------------------------------------------------------------
\* The rest of start after the previous session: the environment, the segment
\* and the process; each may fail, and nothing is left then.
Launch(t) ==
  /\ pc[t] = "launch"
  /\ sessions' = sessions + 1
  /\ alive' = alive \cup {<<sessions', 0>>}
  /\ segments' = segments \cup {sessions'}
  /\ sess' = [sess EXCEPT ![t] = sessions']
  /\ Goto(t, "activate")
  /\ UNCHANGED <<active, closed, generation, current, watched, startLock, display, exits>>

LaunchFails(t) ==
  /\ pc[t] = "launch"
  /\ Return(t)
  /\ UNCHANGED <<manager, system, sess, display, exits>>

Activate(t) ==
  /\ pc[t] = "activate"
  /\ active' = sess[t]
  /\ Goto(t, "suspend")
  /\ UNCHANGED <<sessions, closed, generation, current, system, startLock, sess, display, exits>>

\* _suspend_production_for_sideload terminates the widgets and the game.
Suspend(t) ==
  /\ pc[t] = "suspend"
  /\ production' = "suspended"
  /\ Goto(t, "observe")
  /\ UNCHANGED <<manager, system, startLock, sess, reload, loop, exits>>

SuspendFails(t) ==
  /\ pc[t] = "suspend"
  /\ Goto(t, "failed")
  /\ UNCHANGED <<manager, system, startLock, sess, display, exits>>

\* _start_process_observers, the end of start and of update_params.  The
\* observer thread is left out.
Observe_Not(t) ==
  /\ pc[t] = "observe"
  /\ Return(t)
  /\ UNCHANGED <<manager, system, sess, display, exits>>

Observe(t) ==
  /\ pc[t] = "observe"
  /\ watched' = watched \cup {Proc(sess[t])}
  /\ Return(t)
  /\ UNCHANGED <<manager, alive, segments, sess, display, exits>>
--------------------------------------------------------------------------------
\* update_params: a new generation, the old process goes and the segment with it.
Update(t) ==
  /\ pc[t] = "idle"
  /\ active # 0
  /\ TakesStartLock(t)
  /\ generation[active] < MaxGen
  /\ sess' = [sess EXCEPT ![t] = active]
  /\ Goto(t, "renew")
  /\ UNCHANGED <<manager, system, display, exits>>

Renew(t) ==
  /\ pc[t] = "renew"
  /\ generation' = [generation EXCEPT ![sess[t]] = @ + 1]
  /\ Goto(t, "clear")
  /\ UNCHANGED <<sessions, active, closed, current, system, startLock, sess, display, exits>>

Clear(t) ==
  /\ pc[t] = "clear"
  /\ alive' = alive \ {Proc(sess[t])}
  /\ segments' = segments \ {sess[t]}
  /\ Goto(t, "relaunch")
  /\ UNCHANGED <<manager, watched, startLock, sess, display, exits>>

\* The thread has closed the session and has not removed its files yet.
HasFiles == {"cleanup", "cleanup, then launch", "remove", "remove, then launch"}

\* The files of the app are removed when the session is cleaned up.
Removed(n) == closed[n] /\ ~\E t \in Thread : pc[t] \in HasFiles /\ sess[t] = n

\* The new segment, which is only created under a free name, and the process; or, if
\* either fails, the end of the session.
Relaunch(t) ==
  /\ pc[t] = "relaunch"
  /\ sess[t] \notin segments /\ ~Removed(sess[t])
  /\ alive' = alive \cup {<<sess[t], generation[sess[t]]>>}
  /\ segments' = segments \cup {sess[t]}
  /\ Goto(t, "install")
  /\ UNCHANGED <<manager, watched, startLock, sess, display, exits>>

RelaunchFails(t) ==
  /\ pc[t] = "relaunch"
  /\ Goto(t, "finish")
  /\ UNCHANGED <<manager, system, startLock, sess, display, exits>>

Install(t) ==
  /\ pc[t] = "install"
  /\ current' = [current EXCEPT ![sess[t]] = generation[sess[t]]]
  /\ Goto(t, "observe")
  /\ UNCHANGED <<sessions, active, closed, generation, system, startLock, sess, display, exits>>
--------------------------------------------------------------------------------
\* _watch_process: the process has exited; is it the one the session runs?
Exited(n, g) ==
  LET t == Observer(n)
  IN  /\ <<n, g>> \in watched \ alive
      /\ pc[t] = "idle"
      /\ watched' = watched \ {<<n, g>>}
      /\ sess' = [sess EXCEPT ![t] = n]
      /\ IF active = n /\ current[n] = g /\ generation[n] = g /\ ~closed[n]
         THEN Goto(t, "finish")
         ELSE UNCHANGED pc
      /\ UNCHANGED <<manager, alive, segments, startLock, display, exits>>

\* The lock is given up when the previous session has ended.
AfterFinish_Unlocks(t) ==
  /\ startLock' = IF startLock = t THEN NoThread ELSE startLock
  /\ Goto(t, IF pc[t] \in {"finish, then launch", "restore, then launch"}
             THEN "launch" ELSE "idle")

\* After _finish, start goes on and every other call is over.
AfterFinish(t) ==
  IF pc[t] \in {"finish, then launch", "restore, then launch"}
  THEN Goto(t, "launch") /\ UNCHANGED startLock
  ELSE Return(t)

\* The session is closed without the lock being held from the test on.
Finish_NoTest(t) ==
  /\ pc[t] \in {"finish", "finish, then launch"}
  /\ closed' = [closed EXCEPT ![sess[t]] = TRUE]
  /\ active' = IF active = sess[t] THEN 0 ELSE active
  /\ Goto(t, IF pc[t] = "finish" THEN "cleanup" ELSE "cleanup, then launch")
  /\ UNCHANGED <<sessions, generation, current, system, startLock, sess, display, exits>>

\* _finish: the first caller closes the session and goes on to clean up.
Finish(t) ==
  /\ pc[t] \in {"finish", "finish, then launch"}
  /\ IF closed[sess[t]]
     THEN AfterFinish(t) /\ UNCHANGED <<closed, active>>
     ELSE /\ closed' = [closed EXCEPT ![sess[t]] = TRUE]
          /\ active' = IF active = sess[t] THEN 0 ELSE active
          /\ Goto(t, IF pc[t] = "finish" THEN "cleanup" ELSE "cleanup, then launch")
          /\ UNCHANGED startLock
  /\ UNCHANGED <<sessions, generation, current, system, sess, display, exits>>

\* The segment that has the name now, of whatever generation.
Unlink(t) ==
  /\ pc[t] \in {"cleanup", "cleanup, then launch"}
  /\ segments' = segments \ {sess[t]}
  /\ Goto(t, IF pc[t] = "cleanup" THEN "remove" ELSE "remove, then launch")
  /\ UNCHANGED <<manager, alive, watched, startLock, sess, display, exits>>

\* The data store and the files of the app.
RemoveFiles(t) ==
  /\ pc[t] \in {"remove", "remove, then launch"}
  /\ Goto(t, IF pc[t] = "remove" THEN "restore" ELSE "restore, then launch")
  /\ UNCHANGED <<manager, system, startLock, sess, display, exits>>

Cleanup(t) == Unlink(t) \/ RemoveFiles(t)

\* _restore_production_after_sideload, and the exit event.
Restore(t) ==
  /\ pc[t] \in {"restore", "restore, then launch"}
  /\ reload' = TRUE
  /\ exits' = [exits EXCEPT ![sess[t]] = @ + 1]
  /\ AfterFinish(t)
  /\ UNCHANGED <<manager, system, sess, production, loop>>
--------------------------------------------------------------------------------
\* The main loop renders the active session, or else re-initialises the widgets
\* when asked to.
LoopTop ==
  /\ loop = "top"
  /\ active = 0
  /\ reload
  /\ reload' = FALSE
  /\ loop' = "init"
  /\ UNCHANGED <<manager, system, startLock, pc, sess, production, exits>>

\* init_widgets: the pages are loaded again, and then the flag is cleared, with a request
\* made meanwhile.
LoopLoads ==
  /\ loop = "init"
  /\ production' = "running"
  /\ loop' = "flag"
  /\ UNCHANGED <<manager, system, startLock, pc, sess, reload, exits>>

LoopClears ==
  /\ loop = "flag"
  /\ reload' = FALSE
  /\ loop' = "top"
  /\ UNCHANGED <<manager, system, startLock, pc, sess, production, exits>>

LoopInit == LoopLoads \/ LoopClears

\* Outside the code: the app exits by itself.
AppExits(p) ==
  /\ p \in alive
  /\ alive' = alive \ {p}
  /\ UNCHANGED <<manager, segments, watched, startLock, pc, sess, display, exits>>
--------------------------------------------------------------------------------
Request(t) == Start(t) \/ Stop(t) \/ Update(t)

Continue(t) ==
  \/ StopAgain(t) \/ Kill(t)
  \/ Launch(t) \/ LaunchFails(t) \/ Activate(t) \/ Suspend(t) \/ SuspendFails(t) \/ Observe(t)
  \/ Renew(t) \/ Clear(t) \/ Relaunch(t) \/ RelaunchFails(t) \/ Install(t)
  \/ Finish(t) \/ Cleanup(t) \/ Restore(t)

SideloadNext ==
  \/ \E t \in Handlers : Request(t)
  \/ \E t \in Thread : Continue(t)
  \/ \E n \in Session, g \in 0..MaxGen : Exited(n, g)
  \/ LoopTop \/ LoopInit
  \/ \E p \in alive : AppExits(p)

SideloadSpec == SideloadInit /\ [][SideloadNext]_svars

\* Threads that have something to do are scheduled.
SideloadFairness ==
  /\ \A t \in Thread : WF_svars(Continue(t))
  /\ \A n \in Session, g \in 0..MaxGen : WF_svars(Exited(n, g))
  /\ WF_svars(LoopTop) /\ WF_svars(LoopInit)

FairSideloadSpec == SideloadSpec /\ SideloadFairness
--------------------------------------------------------------------------------
Labels ==
  {"idle", "replace", "failed", "kill", "kill, then launch", "launch", "activate",
   "suspend", "observe", "renew", "clear", "relaunch", "install",
   "finish", "finish, then launch", "cleanup", "cleanup, then launch",
   "remove", "remove, then launch", "restore", "restore, then launch"}

\* The labels a thread has only while it holds _start_lock.
InStart ==
  {"replace", "failed", "kill, then launch", "launch", "activate", "suspend",
   "observe", "renew", "clear", "relaunch", "install",
   "finish, then launch", "cleanup, then launch", "remove, then launch",
   "restore, then launch"}

StateTypes ==
  /\ sessions \in 0..MaxSession /\ active \in 0..sessions
  /\ closed \in [Session -> BOOLEAN]
  /\ generation \in [Session -> 0..MaxGen] /\ current \in [Session -> 0..MaxGen]
  /\ alive \subseteq Process /\ segments \subseteq Session /\ watched \subseteq Process
  /\ startLock \in Handlers \cup {NoThread}
  /\ pc \in [Thread -> Labels] /\ sess \in [Thread -> 0..MaxSession]
  /\ production \in {"running", "suspended"} /\ reload \in BOOLEAN
  /\ loop \in {"top", "init", "flag"}
  /\ exits \in [Session -> Nat]

\* Only the holder of _start_lock is inside start or update_params.
OneStarter == \A t \in Thread : pc[t] \in InStart => startLock = t

\* A thread that is past its look-up works on a session that has been created.
WorksOnSession ==
  \A t \in Thread : pc[t] \notin {"idle", "launch"} => sess[t] \in 1..sessions

SideloadTypeOK == StateTypes /\ OneStarter /\ WorksOnSession

\* Of all the sessions ever created at most one is not closed: a start never
\* overlaps a session that has not ended.
OneOpenSession ==
  \A m, n \in 1..sessions : (~closed[m] /\ ~closed[n]) => m = n

\* The thread has closed the session and is still cleaning up after it.
CleanerLabels ==
  {"cleanup", "cleanup, then launch", "remove", "remove, then launch",
   "restore", "restore, then launch"}

Cleans(t, n) == pc[t] \in CleanerLabels /\ sess[t] = n

\* A session ends once, though stop requests, the expiry watchdog, the exit of
\* its process and a failed update may all end it at the same time: one exit
\* event, one restoration, and none before the session is closed.
EndsOnce ==
  \A n \in Session :
    exits[n] = (IF closed[n] /\ ~\E t \in Thread : Cleans(t, n) THEN 1 ELSE 0)

\* When the app of the active session exits and is not replaced by an update,
\* the session ends.
DeadAppEndsSession ==
  \A n \in Session :
    []<>(active # n \/ Proc(n) \in alive)

AtRest == (\A t \in Thread : pc[t] = "idle") /\ watched \subseteq alive

\* The manager owns one private app process: once no session is active and every
\* thread is through, no app runs and no segment is left.
NothingLeftBehind == (AtRest /\ active = 0) => (alive = {} /\ segments = {})
================================================================================
