----------------------------- MODULE SideloadProofs ----------------------------
(***************************************************************************)
(* Proofs about Sideload for every set of threads and both bounds.         *)
(***************************************************************************)
EXTENDS Sideload, TLAPS

\* The steps of the program that no thread of the manager takes.
Around ==
  LoopTop \/ LoopInit \/ (\E p \in alive : AppExits(p)) \/ UNCHANGED svars

\* The labels of a thread that is going to launch a session.
BeforeLaunch ==
  {"replace", "kill, then launch", "finish, then launch", "cleanup, then launch",
   "remove, then launch", "restore, then launch", "launch"}

\* What was below its bound when the call began still is.
Room ==
  \A t \in Thread :
    /\ pc[t] \in BeforeLaunch => sessions < MaxSession
    /\ pc[t] = "renew" => generation[sess[t]] < MaxGen

LEMMA StepCases ==
  ASSUME [SideloadNext]_svars
  PROVE  \/ \E t \in Handlers : Request(t)
         \/ \E t \in Thread : Continue(t)
         \/ \E n \in Session, g \in 0..MaxGen : Exited(n, g)
         \/ Around
BY DEF SideloadNext, Around

LEMMA Threads ==
  /\ Handlers \subseteq Thread
  /\ \A n \in Session : Observer(n) \in Thread
  /\ \A t \in Thread : t # NoThread
<1>1. \A t \in Thread : t # NoThread
  <2>1. SUFFICES ASSUME NEW t \in Thread PROVE t # NoThread
    OBVIOUS
  <2>2. CASE t \in Handlers
    BY <2>2 DEF Handlers, NoThread
  <2>3. CASE \E n \in Session : t = Observer(n)
    BY <2>3 DEF Observer, NoThread
  <2>4. QED
    BY <2>2, <2>3 DEF Thread
<1>2. QED
  BY <1>1 DEF Thread

\* Bounds, for the provers.
LEMMA Bounds ==
  ASSUME StateTypes
  PROVE  /\ sessions \in Nat /\ sessions <= MaxSession
         /\ \A n \in 1..sessions : n \in Session
         /\ active # 0 => active \in Session /\ active \in 1..sessions
         /\ active \in 0..MaxSession
BY SideloadAssumption DEF StateTypes, Session

LEMMA ProcType ==
  ASSUME StateTypes, NEW n \in Session
  PROVE  Proc(n) \in Process /\ \A g \in 0..MaxGen : <<n, g>> \in Process
BY SideloadAssumption DEF StateTypes, Proc, Process

--------------------------------------------------------------------------------
\* How the control of a thread moves, for the two invariants about it.

LEMMA OneStarterMoves ==
  ASSUME StateTypes, OneStarter, NEW t \in Thread, NEW label \in Labels, Goto(t, label),
         \/ startLock' = startLock /\ (label \in InStart => pc[t] \in InStart)
         \/ label \notin InStart /\ Return(t)
         \/ TakesStartLock(t)
  PROVE  OneStarter'
<1> SUFFICES ASSUME NEW u \in Thread, pc'[u] \in InStart
             PROVE  startLock' = u
  BY DEF OneStarter
<1>1. pc' = [pc EXCEPT ![t] = label] /\ pc \in [Thread -> Labels]
  BY DEF Goto, StateTypes
<1>2. CASE u = t
  BY <1>1, <1>2 DEF OneStarter, TakesStartLock
<1>3. CASE u # t
  <2>1. pc'[u] = pc[u] /\ startLock = u
    BY <1>1, <1>3 DEF OneStarter
  <2>2. QED
    BY <2>1, <1>3, Threads DEF TakesStartLock, Return
<1>4. QED
  BY <1>2, <1>3

LEMMA WorksOnSessionMoves ==
  ASSUME StateTypes, WorksOnSession, NEW t \in Thread, NEW label \in Labels, Goto(t, label),
         sessions' \in Nat, sessions' >= sessions,
         sess' = [sess EXCEPT ![t] = sess'[t]],
         label \in {"idle", "launch"} \/ sess'[t] \in 1..sessions'
  PROVE  WorksOnSession'
<1> SUFFICES ASSUME NEW u \in Thread, pc'[u] \notin {"idle", "launch"}
             PROVE  sess'[u] \in 1..sessions'
  BY DEF WorksOnSession
<1>1. pc' = [pc EXCEPT ![t] = label] /\ pc \in [Thread -> Labels]
      /\ sess \in [Thread -> 0..MaxSession] /\ sessions \in Nat
  BY Bounds DEF Goto, StateTypes
<1>2. CASE u = t
  BY <1>1, <1>2
<1>3. CASE u # t
  BY <1>1, <1>3 DEF WorksOnSession
<1>4. QED
  BY <1>2, <1>3
LEMMA StateTypesStep ==
  ASSUME StateTypes, WorksOnSession, Room, [SideloadNext]_svars
  PROVE  StateTypes'
<1>1. ASSUME NEW t \in Handlers, Start(t)
      PROVE  StateTypes'
  <2>1. pc' \in [Thread -> Labels]
    BY <1>1, Threads DEF Start, Goto, TakesStartLock, StateTypes, Labels
  <2>2. sess' \in [Thread -> 0..MaxSession]
        /\ startLock' \in Handlers \cup {NoThread}
    BY <1>1, Threads, Bounds, ProcType, SideloadAssumption DEF Start, manager, TakesStartLock, StateTypes, WorksOnSession
  <2>3. QED
    BY <1>1, <2>1, <2>2, SideloadAssumption DEF Start, manager, system, display, TakesStartLock, StateTypes
<1>2. ASSUME NEW t \in Handlers, Stop(t)
      PROVE  StateTypes'
  <2>1. pc' \in [Thread -> Labels]
    BY <1>2, Threads DEF Stop, Goto, StateTypes, Labels
  <2>2. sess' \in [Thread -> 0..MaxSession]
    BY <1>2, Threads, Bounds, ProcType, SideloadAssumption DEF Stop, manager, StateTypes, WorksOnSession
  <2>3. QED
    BY <1>2, <2>1, <2>2, SideloadAssumption DEF Stop, manager, system, display, StateTypes
<1>3. ASSUME NEW t \in Handlers, Update(t)
      PROVE  StateTypes'
  <2>1. pc' \in [Thread -> Labels]
    BY <1>3, Threads DEF Update, Goto, TakesStartLock, StateTypes, Labels
  <2>2. sess' \in [Thread -> 0..MaxSession]
        /\ startLock' \in Handlers \cup {NoThread}
    BY <1>3, Threads, Bounds, ProcType, SideloadAssumption DEF Update, manager, TakesStartLock, StateTypes, WorksOnSession
  <2>3. QED
    BY <1>3, <2>1, <2>2, SideloadAssumption DEF Update, manager, system, display, TakesStartLock, StateTypes
<1>4. ASSUME NEW t \in Thread, StopAgain(t)
      PROVE  StateTypes'
  BY <1>4, Threads, Bounds, ProcType, SideloadAssumption DEF StopAgain, Return, manager, system, display, Goto, StateTypes, WorksOnSession, Labels
<1>5. ASSUME NEW t \in Thread, Kill(t)
      PROVE  StateTypes'
  BY <1>5, Threads, Bounds, ProcType, SideloadAssumption DEF Kill, manager, system, display, Goto, StateTypes, WorksOnSession, Labels
<1>6. ASSUME NEW t \in Thread, Launch(t)
      PROVE  StateTypes'
  <2>1. pc' \in [Thread -> Labels]
    BY <1>6, Threads DEF Launch, Goto, StateTypes, Labels
  <2>2. sess' \in [Thread -> 0..MaxSession] /\ sessions' \in 1..MaxSession
        /\ active \in 0..sessions' /\ sessions' \in Session /\ <<sessions', 0>> \in Process
    <3>1. sessions \in Nat /\ sessions < MaxSession
      BY <1>6, Bounds DEF Launch, Room, BeforeLaunch
    <3>2. QED
      BY <1>6, <3>1, SideloadAssumption DEF Launch, StateTypes, Process, Session
  <2>3. QED
    BY <1>6, <2>1, <2>2, SideloadAssumption DEF Launch, manager, system, display, StateTypes, Session
<1>7. ASSUME NEW t \in Thread, LaunchFails(t)
      PROVE  StateTypes'
  BY <1>7, Threads, Bounds, ProcType, SideloadAssumption DEF LaunchFails, Return, manager, system, display, Goto, StateTypes, WorksOnSession, Labels
<1>8. ASSUME NEW t \in Thread, Activate(t)
      PROVE  StateTypes'
  <2>1. pc' \in [Thread -> Labels]
    BY <1>8, Threads DEF Activate, Goto, StateTypes, Labels
  <2>2. active' \in 0..sessions
    BY <1>8, Bounds DEF Activate, WorksOnSession
  <2>3. QED
    BY <1>8, <2>1, <2>2, SideloadAssumption DEF Activate, manager, system, display, StateTypes
<1>9. ASSUME NEW t \in Thread, Suspend(t)
      PROVE  StateTypes'
  BY <1>9, Threads, Bounds, ProcType, SideloadAssumption DEF Suspend, manager, system, display, Goto, StateTypes, WorksOnSession, Labels
<1>10. ASSUME NEW t \in Thread, SuspendFails(t)
      PROVE  StateTypes'
  BY <1>10, Threads, Bounds, ProcType, SideloadAssumption DEF SuspendFails, manager, system, display, Goto, StateTypes, WorksOnSession, Labels
<1>11. ASSUME NEW t \in Thread, Observe(t)
      PROVE  StateTypes'
  BY <1>11, Threads, Bounds, ProcType, SideloadAssumption DEF Observe, Return, manager, system, display, Goto, StateTypes, WorksOnSession, Labels
<1>12. ASSUME NEW t \in Thread, Renew(t)
      PROVE  StateTypes'
  <2>1. pc' \in [Thread -> Labels]
    BY <1>12, Threads DEF Renew, Goto, StateTypes, Labels
  <2>2. generation' \in [Session -> 0..MaxGen]
    <3>1. sess[t] \in Session /\ generation[sess[t]] < MaxGen
      BY <1>12, Bounds DEF Renew, WorksOnSession, Room
    <3>2. QED
      BY <1>12, <3>1, SideloadAssumption DEF Renew, StateTypes
  <2>3. QED
    BY <1>12, <2>1, <2>2, SideloadAssumption DEF Renew, manager, system, display, StateTypes
<1>13. ASSUME NEW t \in Thread, Clear(t)
      PROVE  StateTypes'
  BY <1>13, Threads, Bounds, ProcType, SideloadAssumption DEF Clear, manager, system, display, Goto, StateTypes, WorksOnSession, Labels
<1>14. ASSUME NEW t \in Thread, Relaunch(t)
      PROVE  StateTypes'
  <2>1. pc' \in [Thread -> Labels]
    BY <1>14, Threads DEF Relaunch, Goto, StateTypes, Labels
  <2>2. sess[t] \in Session /\ <<sess[t], generation[sess[t]]>> \in Process
    BY <1>14, Threads, Bounds, ProcType, SideloadAssumption DEF Relaunch, manager, StateTypes, WorksOnSession, Labels
  <2>3. QED
    BY <1>14, <2>1, <2>2, SideloadAssumption DEF Relaunch, manager, system, display, StateTypes
<1>15. ASSUME NEW t \in Thread, RelaunchFails(t)
      PROVE  StateTypes'
  BY <1>15, Threads, Bounds, ProcType, SideloadAssumption DEF RelaunchFails, manager, system, display, Goto, StateTypes, WorksOnSession, Labels
<1>16. ASSUME NEW t \in Thread, Install(t)
      PROVE  StateTypes'
  BY <1>16, Threads, Bounds, ProcType, SideloadAssumption DEF Install, manager, system, display, Goto, StateTypes, WorksOnSession, Labels
<1>17. ASSUME NEW t \in Thread, Finish(t)
      PROVE  StateTypes'
  <2>1. pc' \in [Thread -> Labels]
    BY <1>17, Threads DEF Finish, Goto, AfterFinish, Return, StateTypes, Labels
  <2>2. closed' \in [Session -> BOOLEAN] /\ active' \in 0..sessions
        /\ startLock' \in Handlers \cup {NoThread}
    <3>1. sess[t] \in Session /\ sessions \in Nat
      BY <1>17, Bounds DEF Finish, WorksOnSession
    <3>2. closed' \in [Session -> BOOLEAN]
      BY <1>17 DEF Finish, StateTypes
    <3>3. active' \in 0..sessions
      <4>1. active' = active \/ active' = 0
        BY <1>17 DEF Finish
      <4>2. QED
        BY <4>1, <3>1 DEF StateTypes
    <3>4. startLock' \in Handlers \cup {NoThread}
      BY <1>17 DEF Finish, AfterFinish, Return, StateTypes
    <3>5. QED
      BY <3>2, <3>3, <3>4
  <2>3. QED
    BY <1>17, <2>1, <2>2, SideloadAssumption DEF Finish, manager, system, display, AfterFinish, Return, StateTypes
<1>18. ASSUME NEW t \in Thread, Cleanup(t)
      PROVE  StateTypes'
  BY <1>18, Threads, Bounds, ProcType, SideloadAssumption DEF Cleanup, Unlink, RemoveFiles, manager, system, display, Goto, StateTypes, WorksOnSession, Labels
<1>19. ASSUME NEW t \in Thread, Restore(t)
      PROVE  StateTypes'
  <2>1. pc' \in [Thread -> Labels]
    BY <1>19, Threads DEF Restore, Goto, AfterFinish, Return, StateTypes, Labels
  <2>2. exits' \in [Session -> Nat] /\ startLock' \in Handlers \cup {NoThread}
    <3>1. sess[t] \in Session
      BY <1>19, Bounds DEF Restore, WorksOnSession
    <3>2. exits' \in [Session -> Nat]
      <4>1. exits' = [exits EXCEPT ![sess[t]] = exits[sess[t]] + 1]
        BY <1>19 DEF Restore
      <4>2. exits \in [Session -> Nat] /\ exits[sess[t]] + 1 \in Nat
        BY <3>1 DEF StateTypes
      <4>3. QED
        BY <4>1, <4>2
    <3>3. startLock' \in Handlers \cup {NoThread}
      BY <1>19 DEF Restore, AfterFinish, Return, StateTypes
    <3>4. QED
      BY <3>2, <3>3
  <2>3. QED
    BY <1>19, <2>1, <2>2, SideloadAssumption DEF Restore, manager, system, display, AfterFinish, Return, StateTypes
<1>20. ASSUME NEW n \in Session, NEW g \in 0..MaxGen, Exited(n, g)
      PROVE  StateTypes'
  <2>1. pc' \in [Thread -> Labels]
    BY <1>20, Threads DEF Exited, Goto, StateTypes, Labels
  <2>2. sess' \in [Thread -> 0..MaxSession]
    BY <1>20, Threads, Bounds, ProcType, SideloadAssumption DEF Exited, manager, StateTypes, WorksOnSession, Session
  <2>3. QED
    BY <1>20, <2>1, <2>2, SideloadAssumption DEF Exited, manager, system, display, StateTypes
<1>21. CASE Around
  BY <1>21, Threads, Bounds, ProcType, SideloadAssumption DEF Around, LoopTop, LoopInit, LoopLoads, LoopClears, AppExits, svars, manager, system, display, Goto, StateTypes, WorksOnSession, Labels
<1>22. QED
  BY <1>1, <1>2, <1>3, <1>4, <1>5, <1>6, <1>7, <1>8, <1>9, <1>10,
     <1>11, <1>12, <1>13, <1>14, <1>15, <1>16, <1>17, <1>18, <1>19, <1>20, <1>21, StepCases DEF Request, Continue

LEMMA OneStarterStep ==
  ASSUME StateTypes, OneStarter, [SideloadNext]_svars
  PROVE  OneStarter'
<1>1. ASSUME NEW t \in Handlers, Start(t)
      PROVE  OneStarter'
  BY <1>1, Threads DEF Start, TakesStartLock, manager, Goto, StateTypes, OneStarter, InStart
<1>2. ASSUME NEW t \in Handlers, Stop(t)
      PROVE  OneStarter'
  BY <1>2, Threads DEF Stop, manager, Goto, StateTypes, OneStarter, InStart
<1>3. ASSUME NEW t \in Handlers, Update(t)
      PROVE  OneStarter'
  BY <1>3, Threads DEF Update, TakesStartLock, manager, Goto, StateTypes, OneStarter, InStart
<1>4. ASSUME NEW t \in Thread, StopAgain(t)
      PROVE  OneStarter'
  BY <1>4, Threads DEF StopAgain, Return, manager, Goto, StateTypes, OneStarter, InStart
<1>5. ASSUME NEW t \in Thread, Kill(t)
      PROVE  OneStarter'
  BY <1>5, Threads DEF Kill, manager, Goto, StateTypes, OneStarter, InStart
<1>6. ASSUME NEW t \in Thread, Launch(t)
      PROVE  OneStarter'
  BY <1>6, Threads DEF Launch, manager, Goto, StateTypes, OneStarter, InStart
<1>7. ASSUME NEW t \in Thread, LaunchFails(t)
      PROVE  OneStarter'
  BY <1>7, Threads DEF LaunchFails, Return, manager, Goto, StateTypes, OneStarter, InStart
<1>8. ASSUME NEW t \in Thread, Activate(t)
      PROVE  OneStarter'
  BY <1>8, Threads DEF Activate, manager, Goto, StateTypes, OneStarter, InStart
<1>9. ASSUME NEW t \in Thread, Suspend(t)
      PROVE  OneStarter'
  BY <1>9, Threads DEF Suspend, manager, Goto, StateTypes, OneStarter, InStart
<1>10. ASSUME NEW t \in Thread, SuspendFails(t)
      PROVE  OneStarter'
  BY <1>10, Threads DEF SuspendFails, manager, Goto, StateTypes, OneStarter, InStart
<1>11. ASSUME NEW t \in Thread, Observe(t)
      PROVE  OneStarter'
  BY <1>11, Threads DEF Observe, Return, manager, Goto, StateTypes, OneStarter, InStart
<1>12. ASSUME NEW t \in Thread, Renew(t)
      PROVE  OneStarter'
  BY <1>12, Threads DEF Renew, manager, Goto, StateTypes, OneStarter, InStart
<1>13. ASSUME NEW t \in Thread, Clear(t)
      PROVE  OneStarter'
  BY <1>13, Threads DEF Clear, manager, Goto, StateTypes, OneStarter, InStart
<1>14. ASSUME NEW t \in Thread, Relaunch(t)
      PROVE  OneStarter'
  BY <1>14, Threads DEF Relaunch, manager, Goto, StateTypes, OneStarter, InStart
<1>15. ASSUME NEW t \in Thread, RelaunchFails(t)
      PROVE  OneStarter'
  BY <1>15, Threads DEF RelaunchFails, manager, Goto, StateTypes, OneStarter, InStart
<1>16. ASSUME NEW t \in Thread, Install(t)
      PROVE  OneStarter'
  BY <1>16, Threads DEF Install, manager, Goto, StateTypes, OneStarter, InStart
<1>17. ASSUME NEW t \in Thread, Finish(t)
      PROVE  OneStarter'
  BY <1>17, Threads DEF Finish, AfterFinish, Return, manager, Goto, StateTypes, OneStarter, InStart
<1>18. ASSUME NEW t \in Thread, Cleanup(t)
      PROVE  OneStarter'
  BY <1>18, Threads DEF Cleanup, Unlink, RemoveFiles, manager, Goto, StateTypes, OneStarter, InStart
<1>19. ASSUME NEW t \in Thread, Restore(t)
      PROVE  OneStarter'
  BY <1>19, Threads DEF Restore, AfterFinish, Return, manager, Goto, StateTypes, OneStarter, InStart
<1>20. ASSUME NEW n \in Session, NEW g \in 0..MaxGen, Exited(n, g)
      PROVE  OneStarter'
  BY <1>20, Threads DEF Exited, manager, Goto, StateTypes, OneStarter, InStart
<1>21. CASE Around
  BY <1>21, Threads DEF Around, LoopTop, LoopInit, LoopLoads, LoopClears, AppExits, svars, manager, Goto, StateTypes, OneStarter, InStart
<1>22. QED
  BY <1>1, <1>2, <1>3, <1>4, <1>5, <1>6, <1>7, <1>8, <1>9, <1>10,
     <1>11, <1>12, <1>13, <1>14, <1>15, <1>16, <1>17, <1>18, <1>19, <1>20, <1>21, StepCases DEF Request, Continue

LEMMA WorksOnSessionStep ==
  ASSUME StateTypes, WorksOnSession, [SideloadNext]_svars
  PROVE  WorksOnSession'
<1>1. ASSUME NEW t \in Handlers, Start(t)
      PROVE  WorksOnSession'
  BY <1>1, Threads, Bounds DEF Start, TakesStartLock, manager, Goto, StateTypes, WorksOnSession
<1>2. ASSUME NEW t \in Handlers, Stop(t)
      PROVE  WorksOnSession'
  BY <1>2, Threads, Bounds DEF Stop, manager, Goto, StateTypes, WorksOnSession
<1>3. ASSUME NEW t \in Handlers, Update(t)
      PROVE  WorksOnSession'
  BY <1>3, Threads, Bounds DEF Update, TakesStartLock, manager, Goto, StateTypes, WorksOnSession
<1>4. ASSUME NEW t \in Thread, StopAgain(t)
      PROVE  WorksOnSession'
  BY <1>4, Threads, Bounds DEF StopAgain, Return, manager, Goto, StateTypes, WorksOnSession
<1>5. ASSUME NEW t \in Thread, Kill(t)
      PROVE  WorksOnSession'
  BY <1>5, Threads, Bounds DEF Kill, manager, Goto, StateTypes, WorksOnSession
<1>6. ASSUME NEW t \in Thread, Launch(t)
      PROVE  WorksOnSession'
  BY <1>6, Threads, Bounds DEF Launch, manager, Goto, StateTypes, WorksOnSession
<1>7. ASSUME NEW t \in Thread, LaunchFails(t)
      PROVE  WorksOnSession'
  BY <1>7, Threads, Bounds DEF LaunchFails, Return, manager, Goto, StateTypes, WorksOnSession
<1>8. ASSUME NEW t \in Thread, Activate(t)
      PROVE  WorksOnSession'
  BY <1>8, Threads, Bounds DEF Activate, manager, Goto, StateTypes, WorksOnSession
<1>9. ASSUME NEW t \in Thread, Suspend(t)
      PROVE  WorksOnSession'
  BY <1>9, Threads, Bounds DEF Suspend, manager, Goto, StateTypes, WorksOnSession
<1>10. ASSUME NEW t \in Thread, SuspendFails(t)
      PROVE  WorksOnSession'
  BY <1>10, Threads, Bounds DEF SuspendFails, manager, Goto, StateTypes, WorksOnSession
<1>11. ASSUME NEW t \in Thread, Observe(t)
      PROVE  WorksOnSession'
  BY <1>11, Threads, Bounds DEF Observe, Return, manager, Goto, StateTypes, WorksOnSession
<1>12. ASSUME NEW t \in Thread, Renew(t)
      PROVE  WorksOnSession'
  BY <1>12, Threads, Bounds DEF Renew, manager, Goto, StateTypes, WorksOnSession
<1>13. ASSUME NEW t \in Thread, Clear(t)
      PROVE  WorksOnSession'
  BY <1>13, Threads, Bounds DEF Clear, manager, Goto, StateTypes, WorksOnSession
<1>14. ASSUME NEW t \in Thread, Relaunch(t)
      PROVE  WorksOnSession'
  BY <1>14, Threads, Bounds DEF Relaunch, manager, Goto, StateTypes, WorksOnSession
<1>15. ASSUME NEW t \in Thread, RelaunchFails(t)
      PROVE  WorksOnSession'
  BY <1>15, Threads, Bounds DEF RelaunchFails, manager, Goto, StateTypes, WorksOnSession
<1>16. ASSUME NEW t \in Thread, Install(t)
      PROVE  WorksOnSession'
  BY <1>16, Threads, Bounds DEF Install, manager, Goto, StateTypes, WorksOnSession
<1>17. ASSUME NEW t \in Thread, Finish(t)
      PROVE  WorksOnSession'
  BY <1>17, Threads, Bounds DEF Finish, AfterFinish, Return, manager, Goto, StateTypes, WorksOnSession
<1>18. ASSUME NEW t \in Thread, Cleanup(t)
      PROVE  WorksOnSession'
  BY <1>18, Threads, Bounds DEF Cleanup, Unlink, RemoveFiles, manager, Goto, StateTypes, WorksOnSession
<1>19. ASSUME NEW t \in Thread, Restore(t)
      PROVE  WorksOnSession'
  BY <1>19, Threads, Bounds DEF Restore, AfterFinish, Return, manager, Goto, StateTypes, WorksOnSession
<1>20. ASSUME NEW n \in Session, NEW g \in 0..MaxGen, Exited(n, g)
      PROVE  WorksOnSession'
  BY <1>20, Threads, Bounds DEF Exited, manager, Goto, StateTypes, WorksOnSession, Session
<1>21. CASE Around
  BY <1>21, Threads, Bounds DEF Around, LoopTop, LoopInit, LoopLoads, LoopClears, AppExits, svars, manager, Goto, StateTypes, WorksOnSession
<1>22. QED
  BY <1>1, <1>2, <1>3, <1>4, <1>5, <1>6, <1>7, <1>8, <1>9, <1>10,
     <1>11, <1>12, <1>13, <1>14, <1>15, <1>16, <1>17, <1>18, <1>19, <1>20, <1>21, StepCases DEF Request, Continue

LEMMA RoomStep ==
  ASSUME StateTypes, OneStarter, WorksOnSession, Room, [SideloadNext]_svars
  PROVE  Room'
<1>1. ASSUME NEW t \in Handlers, Start(t)
      PROVE  Room'
  BY <1>1, Threads, Bounds DEF Start, TakesStartLock, manager, Goto, StateTypes, OneStarter, InStart, WorksOnSession, Room, BeforeLaunch
<1>2. ASSUME NEW t \in Handlers, Stop(t)
      PROVE  Room'
  BY <1>2, Threads, Bounds DEF Stop, manager, Goto, StateTypes, OneStarter, InStart, WorksOnSession, Room, BeforeLaunch
<1>3. ASSUME NEW t \in Handlers, Update(t)
      PROVE  Room'
  BY <1>3, Threads, Bounds DEF Update, TakesStartLock, manager, Goto, StateTypes, OneStarter, InStart, WorksOnSession, Room, BeforeLaunch
<1>4. ASSUME NEW t \in Thread, StopAgain(t)
      PROVE  Room'
  BY <1>4, Threads, Bounds DEF StopAgain, Return, manager, Goto, StateTypes, OneStarter, InStart, WorksOnSession, Room, BeforeLaunch
<1>5. ASSUME NEW t \in Thread, Kill(t)
      PROVE  Room'
  BY <1>5, Threads, Bounds DEF Kill, manager, Goto, StateTypes, OneStarter, InStart, WorksOnSession, Room, BeforeLaunch
<1>6. ASSUME NEW t \in Thread, Launch(t)
      PROVE  Room'
  BY <1>6, Threads, Bounds DEF Launch, manager, Goto, StateTypes, OneStarter, InStart, WorksOnSession, Room, BeforeLaunch
<1>7. ASSUME NEW t \in Thread, LaunchFails(t)
      PROVE  Room'
  BY <1>7, Threads, Bounds DEF LaunchFails, Return, manager, Goto, StateTypes, OneStarter, InStart, WorksOnSession, Room, BeforeLaunch
<1>8. ASSUME NEW t \in Thread, Activate(t)
      PROVE  Room'
  BY <1>8, Threads, Bounds DEF Activate, manager, Goto, StateTypes, OneStarter, InStart, WorksOnSession, Room, BeforeLaunch
<1>9. ASSUME NEW t \in Thread, Suspend(t)
      PROVE  Room'
  BY <1>9, Threads, Bounds DEF Suspend, manager, Goto, StateTypes, OneStarter, InStart, WorksOnSession, Room, BeforeLaunch
<1>10. ASSUME NEW t \in Thread, SuspendFails(t)
      PROVE  Room'
  BY <1>10, Threads, Bounds DEF SuspendFails, manager, Goto, StateTypes, OneStarter, InStart, WorksOnSession, Room, BeforeLaunch
<1>11. ASSUME NEW t \in Thread, Observe(t)
      PROVE  Room'
  BY <1>11, Threads, Bounds DEF Observe, Return, manager, Goto, StateTypes, OneStarter, InStart, WorksOnSession, Room, BeforeLaunch
<1>12. ASSUME NEW t \in Thread, Renew(t)
      PROVE  Room'
  BY <1>12, Threads, Bounds DEF Renew, manager, Goto, StateTypes, OneStarter, InStart, WorksOnSession, Room, BeforeLaunch
<1>13. ASSUME NEW t \in Thread, Clear(t)
      PROVE  Room'
  BY <1>13, Threads, Bounds DEF Clear, manager, Goto, StateTypes, OneStarter, InStart, WorksOnSession, Room, BeforeLaunch
<1>14. ASSUME NEW t \in Thread, Relaunch(t)
      PROVE  Room'
  BY <1>14, Threads, Bounds DEF Relaunch, manager, Goto, StateTypes, OneStarter, InStart, WorksOnSession, Room, BeforeLaunch
<1>15. ASSUME NEW t \in Thread, RelaunchFails(t)
      PROVE  Room'
  BY <1>15, Threads, Bounds DEF RelaunchFails, manager, Goto, StateTypes, OneStarter, InStart, WorksOnSession, Room, BeforeLaunch
<1>16. ASSUME NEW t \in Thread, Install(t)
      PROVE  Room'
  BY <1>16, Threads, Bounds DEF Install, manager, Goto, StateTypes, OneStarter, InStart, WorksOnSession, Room, BeforeLaunch
<1>17. ASSUME NEW t \in Thread, Finish(t)
      PROVE  Room'
  BY <1>17, Threads, Bounds DEF Finish, AfterFinish, Return, manager, Goto, StateTypes, OneStarter, InStart, WorksOnSession, Room, BeforeLaunch
<1>18. ASSUME NEW t \in Thread, Cleanup(t)
      PROVE  Room'
  BY <1>18, Threads, Bounds DEF Cleanup, Unlink, RemoveFiles, manager, Goto, StateTypes, OneStarter, InStart, WorksOnSession, Room, BeforeLaunch
<1>19. ASSUME NEW t \in Thread, Restore(t)
      PROVE  Room'
  BY <1>19, Threads, Bounds DEF Restore, AfterFinish, Return, manager, Goto, StateTypes, OneStarter, InStart, WorksOnSession, Room, BeforeLaunch
<1>20. ASSUME NEW n \in Session, NEW g \in 0..MaxGen, Exited(n, g)
      PROVE  Room'
  BY <1>20, Threads, Bounds DEF Exited, manager, Goto, StateTypes, OneStarter, InStart, WorksOnSession, Room, BeforeLaunch
<1>21. CASE Around
  BY <1>21, Threads, Bounds DEF Around, LoopTop, LoopInit, LoopLoads, LoopClears, AppExits, svars, manager, Goto, StateTypes, OneStarter, InStart, WorksOnSession, Room, BeforeLaunch
<1>22. QED
  BY <1>1, <1>2, <1>3, <1>4, <1>5, <1>6, <1>7, <1>8, <1>9, <1>10,
     <1>11, <1>12, <1>13, <1>14, <1>15, <1>16, <1>17, <1>18, <1>19, <1>20, <1>21, StepCases DEF Request, Continue

LEMMA SideloadTypeInit == SideloadInit => SideloadTypeOK /\ Room
<1> SUFFICES ASSUME SideloadInit PROVE SideloadTypeOK /\ Room
  OBVIOUS
<1>1. StateTypes
  <2>1. MaxSession \in Nat /\ MaxGen \in Nat
    BY SideloadAssumption
  <2>2. pc \in [Thread -> Labels] /\ sess \in [Thread -> 0..MaxSession]
    BY <2>1 DEF SideloadInit, Labels
  <2>3. closed \in [Session -> BOOLEAN] /\ exits \in [Session -> Nat]
    BY DEF SideloadInit
  <2>4. generation \in [Session -> 0..MaxGen] /\ current \in [Session -> 0..MaxGen]
    BY <2>1 DEF SideloadInit
  <2>5. sessions \in 0..MaxSession /\ active \in 0..sessions
    BY <2>1 DEF SideloadInit
  <2>6. QED
    BY <2>2, <2>3, <2>4, <2>5 DEF SideloadInit, StateTypes
<1>2. OneStarter /\ WorksOnSession /\ Room
  BY DEF SideloadInit, OneStarter, WorksOnSession, Room, InStart, BeforeLaunch
<1>3. QED
  BY <1>1, <1>2 DEF SideloadTypeOK

LEMMA SideloadTypeStep ==
  SideloadTypeOK /\ Room /\ [SideloadNext]_svars => (SideloadTypeOK /\ Room)'
BY StateTypesStep, OneStarterStep, WorksOnSessionStep, RoomStep DEF SideloadTypeOK

\* In every behaviour the variables have their types, only the holder of
\* _start_lock is inside start or update_params, and a thread that is past its
\* look-up works on a session that exists.
THEOREM SideloadTypeCorrect == SideloadSpec => []SideloadTypeOK
<1>1. SideloadSpec => [](SideloadTypeOK /\ Room)
  BY SideloadTypeInit, SideloadTypeStep, PTL DEF SideloadSpec
<1>2. QED
  BY <1>1, PTL

--------------------------------------------------------------------------------
\* The invariant of the sessions.

\* A session that has not been created is not closed and has no exit event.
Fresh == \A n \in Session : n > sessions => ~closed[n] /\ exits[n] = 0

ActiveOpen == active # 0 => ~closed[active]

\* A session that is not closed is the active one, or start is about to make it.
Accounted ==
  \A n \in 1..sessions :
    closed[n] \/ active = n \/ \E t \in Thread : pc[t] = "activate" /\ sess[t] = n

\* start goes on to launch only when no session is active, and until then the
\* active session is the one it replaces.
Starting ==
  \A t \in Thread :
    /\ pc[t] \in {"launch", "activate", "cleanup, then launch", "remove, then launch",
                  "restore, then launch"} => active = 0
    /\ pc[t] \in {"kill, then launch", "finish, then launch"} => active \in {0, sess[t]}

\* A session that start has not yet made active is open, and known to no other thread.
Unshared ==
  \A t \in Thread :
    pc[t] = "activate" =>
      /\ ~closed[sess[t]]
      /\ \A u \in Thread \ {t} : pc[u] # "idle" => sess[u] # sess[t]

\* One thread cleans up a session, and the session is closed by then.
OneCleaner ==
  \A n \in Session, t \in Thread : Cleans(t, n) =>
    /\ closed[n]
    /\ \A u \in Thread : Cleans(u, n) => u = t

SessionInv ==
  /\ SideloadTypeOK /\ Room
  /\ Fresh /\ ActiveOpen /\ Accounted /\ Starting /\ Unshared /\ OneCleaner /\ EndsOnce

\* The steps that neither create, open nor close a session, nor clean up.
Inside(t) ==
  \/ StopAgain(t) \/ Kill(t) \/ LaunchFails(t) \/ Suspend(t) \/ SuspendFails(t) \/ Observe(t)
  \/ Renew(t) \/ Clear(t) \/ Relaunch(t) \/ RelaunchFails(t) \/ Install(t)

LEMMA SessionCases ==
  ASSUME [SideloadNext]_svars
  PROVE  \/ \E t \in Handlers : Start(t) \/ Stop(t) \/ Update(t)
         \/ \E t \in Thread : \/ Inside(t) \/ Launch(t) \/ Activate(t)
                              \/ Finish(t) \/ Cleanup(t) \/ Restore(t)
         \/ \E n \in Session, g \in 0..MaxGen : Exited(n, g)
         \/ Around
BY StepCases DEF Request, Continue, Inside

LEMMA InsideMoves ==
  ASSUME StateTypes, NEW t \in Thread, Inside(t)
  PROVE  /\ UNCHANGED <<sessions, active, closed, exits, sess>>
         /\ pc[t] \notin CleanerLabels \cup {"idle", "activate"}
         /\ pc'[t] \notin CleanerLabels \cup {"launch", "activate"}
         /\ pc'[t] = "kill, then launch" => active = sess[t]
         /\ pc'[t] = "finish, then launch" => pc[t] = "kill, then launch"
         /\ \A u \in Thread \ {t} : pc'[u] = pc[u]
<1> USE DEF StateTypes, Goto, manager, display, CleanerLabels
<1>1. CASE StopAgain(t)
  BY <1>1 DEF StopAgain, Return
<1>2. CASE Kill(t)
  BY <1>2 DEF Kill
<1>3. CASE LaunchFails(t) \/ Observe(t)
  BY <1>3 DEF LaunchFails, Observe, Return
<1>4. CASE Suspend(t) \/ SuspendFails(t)
  BY <1>4 DEF Suspend, SuspendFails
<1>5. CASE Renew(t) \/ Clear(t) \/ Relaunch(t) \/ RelaunchFails(t) \/ Install(t)
  BY <1>5 DEF Renew, Clear, Relaunch, RelaunchFails, Install
<1>6. QED
  BY <1>1, <1>2, <1>3, <1>4, <1>5 DEF Inside

\* _finish, by its test.
LEMMA FinishMoves ==
  ASSUME StateTypes, WorksOnSession, NEW t \in Thread, Finish(t)
  PROVE  /\ sess[t] \in Session /\ sess[t] \in 1..sessions
         /\ UNCHANGED <<sessions, exits, sess>>
         /\ pc[t] \in {"finish", "finish, then launch"}
         /\ \/ /\ closed[sess[t]] /\ UNCHANGED <<closed, active>>
               /\ pc'[t] = IF pc[t] = "finish" THEN "idle" ELSE "launch"
            \/ /\ ~closed[sess[t]]
               /\ closed' = [closed EXCEPT ![sess[t]] = TRUE]
               /\ active' = IF active = sess[t] THEN 0 ELSE active
               /\ pc'[t] = IF pc[t] = "finish" THEN "cleanup" ELSE "cleanup, then launch"
         /\ \A u \in Thread \ {t} : pc'[u] = pc[u]
<1>1. pc[t] \in {"finish", "finish, then launch"}
  BY DEF Finish
<1>2. sess[t] \in Session /\ sess[t] \in 1..sessions
  BY <1>1, Bounds DEF WorksOnSession
<1>3. CASE closed[sess[t]]
  BY <1>1, <1>2, <1>3 DEF Finish, AfterFinish, Return, Goto, StateTypes, display
<1>4. CASE ~closed[sess[t]]
  BY <1>1, <1>2, <1>4 DEF Finish, Goto, StateTypes, display
<1>5. QED
  BY <1>3, <1>4

LEMMA CleanupMoves ==
  ASSUME StateTypes, WorksOnSession, NEW t \in Thread, Cleanup(t)
  PROVE  /\ sess[t] \in Session
         /\ UNCHANGED <<sessions, active, closed, exits, sess>>
         /\ \/ pc[t] = "cleanup" /\ pc'[t] = "remove"
            \/ pc[t] = "remove" /\ pc'[t] = "restore"
            \/ pc[t] = "cleanup, then launch" /\ pc'[t] = "remove, then launch"
            \/ pc[t] = "remove, then launch" /\ pc'[t] = "restore, then launch"
         /\ \A u \in Thread \ {t} : pc'[u] = pc[u]
<1>1. pc[t] \in HasFiles
  BY DEF Cleanup, Unlink, RemoveFiles, HasFiles
<1>2. QED
  BY <1>1, Bounds DEF Cleanup, Unlink, RemoveFiles, HasFiles, system, Goto, StateTypes, WorksOnSession, manager, display

LEMMA RestoreMoves ==
  ASSUME StateTypes, WorksOnSession, NEW t \in Thread, Restore(t)
  PROVE  /\ sess[t] \in Session /\ sess[t] \in 1..sessions
         /\ UNCHANGED <<sessions, active, closed, sess>>
         /\ exits' = [exits EXCEPT ![sess[t]] = @ + 1]
         /\ pc[t] \in {"restore", "restore, then launch"}
         /\ pc'[t] = IF pc[t] = "restore" THEN "idle" ELSE "launch"
         /\ \A u \in Thread \ {t} : pc'[u] = pc[u]
<1>1. pc[t] \in {"restore", "restore, then launch"}
  BY DEF Restore
<1>2. QED
  BY <1>1, Bounds
  DEF Restore, AfterFinish, Return, Goto, StateTypes, WorksOnSession, manager

\* _watch_process: only the thread of that session moves, and only for the active one.
LEMMA ExitedMoves ==
  ASSUME StateTypes, NEW n \in Session, NEW g \in 0..MaxGen, Exited(n, g)
  PROVE  /\ UNCHANGED <<sessions, active, closed, exits>>
         /\ Observer(n) \in Thread /\ pc[Observer(n)] = "idle" /\ n \in 1..MaxSession
         /\ \/ pc'[Observer(n)] = "idle"
            \/ pc'[Observer(n)] = "finish" /\ active = n
         /\ sess'[Observer(n)] = n
         /\ \A u \in Thread \ {Observer(n)} : pc'[u] = pc[u] /\ sess'[u] = sess[u]
BY Threads DEF Exited, Goto, StateTypes, manager, display, Session

LEMMA AroundMoves ==
  ASSUME Around
  PROVE  UNCHANGED <<sessions, active, closed, exits, pc, sess>>
BY DEF Around, LoopTop, LoopInit, LoopLoads, LoopClears, AppExits, svars, manager, display

LEMMA RequestMoves ==
  ASSUME StateTypes, NEW t \in Handlers, Start(t) \/ Stop(t) \/ Update(t)
  PROVE  /\ t \in Thread
         /\ UNCHANGED <<sessions, active, closed, exits>>
         /\ pc[t] = "idle" /\ pc'[t] \in {"replace", "launch", "kill", "renew"}
         /\ sess'[t] = active
         /\ (pc'[t] = "launch") <=> (active = 0)
         /\ \A u \in Thread \ {t} : pc'[u] = pc[u] /\ sess'[u] = sess[u]
BY Threads DEF Start, Stop, Update, Goto, StateTypes, manager, display

LEMMA LaunchMoves ==
  ASSUME StateTypes, OneStarter, Room, NEW t \in Thread, Launch(t)
  PROVE  /\ sessions \in Nat /\ sessions' = sessions + 1 /\ sessions' \in Session
         /\ UNCHANGED <<active, closed, exits>>
         /\ pc[t] = "launch" /\ pc'[t] = "activate" /\ sess'[t] = sessions'
         /\ \A u \in Thread \ {t} : /\ pc'[u] = pc[u] /\ sess'[u] = sess[u]
                                  /\ pc[u] \notin InStart
<1>1. pc[t] = "launch" /\ sessions < MaxSession /\ sessions \in Nat
  BY Bounds DEF Launch, Room, BeforeLaunch
<1>2. \A u \in Thread \ {t} : pc[u] \notin InStart
  BY <1>1 DEF OneStarter, InStart
<1>3. sessions + 1 \in Session
  BY <1>1, SideloadAssumption DEF Session
<1>4. QED
  BY <1>1, <1>2, <1>3 DEF Launch, Goto, StateTypes, display

LEMMA ActivateMoves ==
  ASSUME StateTypes, OneStarter, WorksOnSession, NEW t \in Thread, Activate(t)
  PROVE  /\ sess[t] \in Session /\ active' = sess[t]
         /\ UNCHANGED <<sessions, closed, exits, sess>>
         /\ pc[t] = "activate" /\ pc'[t] = "suspend"
         /\ \A u \in Thread \ {t} : pc'[u] = pc[u] /\ pc[u] \notin InStart
<1>1. \A u \in Thread \ {t} : pc[u] \notin InStart
  BY DEF Activate, OneStarter, InStart
<1>2. QED
  BY <1>1, Bounds DEF Activate, Goto, StateTypes, WorksOnSession, display

LEMMA FreshStep ==
  ASSUME StateTypes, OneStarter, WorksOnSession, Room, Fresh,
         [SideloadNext]_svars
  PROVE  Fresh'
<1>1. ASSUME NEW t \in Handlers, Start(t) \/ Stop(t) \/ Update(t)
      PROVE  Fresh'
  BY <1>1, RequestMoves, Bounds DEF Fresh, Session
<1>2. ASSUME NEW t \in Thread, Inside(t)
      PROVE  Fresh'
  BY <1>2, InsideMoves, Bounds DEF Fresh, Session
<1>3. ASSUME NEW t \in Thread, Launch(t)
      PROVE  Fresh'
  BY <1>3, LaunchMoves, Bounds DEF Fresh, Session
<1>4. ASSUME NEW t \in Thread, Activate(t)
      PROVE  Fresh'
  BY <1>4, ActivateMoves, Bounds DEF Fresh, Session
<1>5. ASSUME NEW t \in Thread, Finish(t)
      PROVE  Fresh'
  <2>1. SUFFICES ASSUME NEW m \in Session, m > sessions'
                 PROVE  ~closed'[m] /\ exits'[m] = 0
    BY DEF Fresh
  <2>2. sess[t] \in Session /\ sess[t] # m /\ sessions' = sessions
    <3>1. sess[t] \in Session /\ sess[t] \in 1..sessions /\ sessions' = sessions
      BY <1>5, FinishMoves
    <3>2. sessions \in Nat /\ m > sessions
      BY <2>1, <3>1, Bounds
    <3>3. QED
      BY <3>1, <3>2
  <2>3. closed'[m] = closed[m] /\ exits'[m] = exits[m]
    BY <1>5, <2>2, FinishMoves DEF StateTypes
  <2>4. QED
    BY <2>1, <2>2, <2>3 DEF Fresh
<1>6. ASSUME NEW t \in Thread, Cleanup(t)
      PROVE  Fresh'
  BY <1>6, CleanupMoves, Bounds DEF Fresh, Session
<1>7. ASSUME NEW t \in Thread, Restore(t)
      PROVE  Fresh'
  <2>1. SUFFICES ASSUME NEW m \in Session, m > sessions'
                 PROVE  ~closed'[m] /\ exits'[m] = 0
    BY DEF Fresh
  <2>2. sess[t] \in Session /\ sess[t] # m /\ sessions' = sessions
    <3>1. sess[t] \in Session /\ sess[t] \in 1..sessions /\ sessions' = sessions
      BY <1>7, RestoreMoves
    <3>2. sessions \in Nat /\ m > sessions
      BY <2>1, <3>1, Bounds
    <3>3. QED
      BY <3>1, <3>2
  <2>3. closed'[m] = closed[m] /\ exits'[m] = exits[m]
    BY <1>7, <2>2, RestoreMoves DEF StateTypes
  <2>4. QED
    BY <2>1, <2>2, <2>3 DEF Fresh
<1>8. ASSUME NEW n \in Session, NEW g \in 0..MaxGen, Exited(n, g)
      PROVE  Fresh'
  BY <1>8, ExitedMoves, Bounds DEF Fresh, Session
<1>9. CASE Around
  BY <1>9, AroundMoves, Bounds DEF Fresh, Session
<1>10. QED
  BY <1>1, <1>2, <1>3, <1>4, <1>5, <1>6, <1>7, <1>8, <1>9, SessionCases

LEMMA ActiveOpenStep ==
  ASSUME StateTypes, OneStarter, WorksOnSession, Room, ActiveOpen, Unshared,
         [SideloadNext]_svars
  PROVE  ActiveOpen'
<1>1. ASSUME NEW t \in Handlers, Start(t) \/ Stop(t) \/ Update(t)
      PROVE  ActiveOpen'
  BY <1>1, RequestMoves, Bounds DEF ActiveOpen, Unshared, StateTypes
<1>2. ASSUME NEW t \in Thread, Inside(t)
      PROVE  ActiveOpen'
  BY <1>2, InsideMoves, Bounds DEF ActiveOpen, Unshared, StateTypes
<1>3. ASSUME NEW t \in Thread, Launch(t)
      PROVE  ActiveOpen'
  BY <1>3, LaunchMoves, Bounds DEF ActiveOpen, Unshared, StateTypes
<1>4. ASSUME NEW t \in Thread, Activate(t)
      PROVE  ActiveOpen'
  BY <1>4, ActivateMoves, Bounds DEF ActiveOpen, Unshared, StateTypes
<1>5. ASSUME NEW t \in Thread, Finish(t)
      PROVE  ActiveOpen'
  <2>1. SUFFICES ASSUME active' # 0 PROVE ~closed'[active']
    BY DEF ActiveOpen
  <2>2. sess[t] \in Session /\ active \in Session /\ active' = active
    BY <1>5, <2>1, FinishMoves, Bounds
  <2>3. closed'[active] = closed[active]
    BY <1>5, <2>1, <2>2, FinishMoves DEF StateTypes
  <2>4. QED
    BY <2>1, <2>2, <2>3 DEF ActiveOpen
<1>6. ASSUME NEW t \in Thread, Cleanup(t)
      PROVE  ActiveOpen'
  BY <1>6, CleanupMoves, Bounds DEF ActiveOpen, Unshared, StateTypes
<1>7. ASSUME NEW t \in Thread, Restore(t)
      PROVE  ActiveOpen'
  BY <1>7, RestoreMoves, Bounds DEF ActiveOpen, Unshared, StateTypes
<1>8. ASSUME NEW n \in Session, NEW g \in 0..MaxGen, Exited(n, g)
      PROVE  ActiveOpen'
  BY <1>8, ExitedMoves, Bounds DEF ActiveOpen, Unshared, StateTypes
<1>9. CASE Around
  BY <1>9, AroundMoves, Bounds DEF ActiveOpen, Unshared, StateTypes
<1>10. QED
  BY <1>1, <1>2, <1>3, <1>4, <1>5, <1>6, <1>7, <1>8, <1>9, SessionCases

LEMMA AccountedStep ==
  ASSUME StateTypes, OneStarter, WorksOnSession, Room, Accounted, Starting,
         [SideloadNext]_svars
  PROVE  Accounted'
<1> SUFFICES ASSUME NEW m \in 1..sessions', ~closed'[m], active' # m
             PROVE  \E u \in Thread : pc'[u] = "activate" /\ sess'[u] = m
  BY DEF Accounted
<1>a. ASSUME m \in 1..sessions, ~closed[m], active # m
      PROVE  \E u \in Thread : pc[u] = "activate" /\ sess[u] = m
  BY <1>a DEF Accounted
<1>1. ASSUME NEW t \in Handlers, Start(t) \/ Stop(t) \/ Update(t)
      PROVE  \E u \in Thread : pc'[u] = "activate" /\ sess'[u] = m
  <2>1. PICK u \in Thread : pc[u] = "activate" /\ sess[u] = m
    BY <1>a, <1>1, RequestMoves
  <2>2. QED
    BY <2>1, <1>1, RequestMoves
<1>2. ASSUME NEW t \in Thread, Inside(t)
      PROVE  \E u \in Thread : pc'[u] = "activate" /\ sess'[u] = m
  <2>1. PICK u \in Thread : pc[u] = "activate" /\ sess[u] = m
    BY <1>a, <1>2, InsideMoves
  <2>2. QED
    BY <2>1, <1>2, InsideMoves
<1>3. ASSUME NEW t \in Thread, Launch(t)
      PROVE  \E u \in Thread : pc'[u] = "activate" /\ sess'[u] = m
  <2>1. CASE m = sessions'
    BY <2>1, <1>3, LaunchMoves
  <2>2. CASE m # sessions'
    <3>1. m \in 1..sessions /\ ~closed[m] /\ active # m
      BY <2>2, <1>3, LaunchMoves
    <3>2. PICK u \in Thread : pc[u] = "activate" /\ sess[u] = m
      BY <3>1, <1>a
    <3>3. QED
      BY <3>2, <1>3, LaunchMoves
  <2>3. QED
    BY <2>1, <2>2
<1>4. ASSUME NEW t \in Thread, Activate(t)
      PROVE  \E u \in Thread : pc'[u] = "activate" /\ sess'[u] = m
  <2>1. active = 0 /\ 0 \notin 1..sessions
    <3>1. active = 0
      BY <1>4, ActivateMoves DEF Starting
    <3>2. sessions \in Nat
      BY Bounds
    <3>3. QED
      BY <3>1, <3>2
  <2>2. PICK u \in Thread : pc[u] = "activate" /\ sess[u] = m
    BY <1>a, <1>4, <2>1, ActivateMoves
  <2>3. u # t
    BY <2>2, <1>4, ActivateMoves
  <2>4. QED
    BY <2>2, <2>3, <1>4, ActivateMoves
<1>5. ASSUME NEW t \in Thread, Finish(t)
      PROVE  \E u \in Thread : pc'[u] = "activate" /\ sess'[u] = m
  <2>1. m \in 1..sessions /\ m \in Session /\ sess[t] \in Session
    BY <1>5, FinishMoves, Bounds
  <2>2. closed'[sess[t]]
    BY <1>5, <2>1, FinishMoves DEF StateTypes
  <2>3. m # sess[t]
    BY <2>2
  <2>4. closed'[m] = closed[m] /\ active # m
    BY <1>5, <2>1, <2>3, FinishMoves DEF StateTypes
  <2>5. PICK u \in Thread : pc[u] = "activate" /\ sess[u] = m
    BY <1>a, <2>1, <2>4
  <2>6. u # t
    BY <1>5, <2>5, FinishMoves
  <2>7. QED
    BY <2>5, <2>6, <1>5, FinishMoves
<1>6. ASSUME NEW t \in Thread, Cleanup(t)
      PROVE  \E u \in Thread : pc'[u] = "activate" /\ sess'[u] = m
  <2>1. PICK u \in Thread : pc[u] = "activate" /\ sess[u] = m
    BY <1>a, <1>6, CleanupMoves
  <2>2. u # t
    BY <1>6, <2>1, CleanupMoves
  <2>3. QED
    BY <2>1, <2>2, <1>6, CleanupMoves
<1>7. ASSUME NEW t \in Thread, Restore(t)
      PROVE  \E u \in Thread : pc'[u] = "activate" /\ sess'[u] = m
  <2>1. PICK u \in Thread : pc[u] = "activate" /\ sess[u] = m
    BY <1>a, <1>7, RestoreMoves
  <2>2. u # t
    BY <1>7, <2>1, RestoreMoves
  <2>3. QED
    BY <2>1, <2>2, <1>7, RestoreMoves
<1>8. ASSUME NEW n \in Session, NEW g \in 0..MaxGen, Exited(n, g)
      PROVE  \E u \in Thread : pc'[u] = "activate" /\ sess'[u] = m
  <2>1. PICK u \in Thread : pc[u] = "activate" /\ sess[u] = m
    BY <1>a, <1>8, ExitedMoves
  <2>2. u # Observer(n)
    BY <1>8, <2>1, ExitedMoves
  <2>3. QED
    BY <2>1, <2>2, <1>8, ExitedMoves
<1>9. CASE Around
  BY <1>a, <1>9, AroundMoves
<1>10. QED
  BY <1>1, <1>2, <1>3, <1>4, <1>5, <1>6, <1>7, <1>8, <1>9, SessionCases

LEMMA StartingStep ==
  ASSUME StateTypes, OneStarter, WorksOnSession, Room, ActiveOpen, Starting,
         [SideloadNext]_svars
  PROVE  Starting'
<1>1. ASSUME NEW t \in Handlers, Start(t) \/ Stop(t) \/ Update(t)
      PROVE  Starting'
  BY <1>1, RequestMoves, Bounds DEF Starting, ActiveOpen, InStart
<1>2. ASSUME NEW t \in Thread, Inside(t)
      PROVE  Starting'
  <2>1. SUFFICES ASSUME NEW u \in Thread
                 PROVE  /\ pc'[u] \in {"launch", "activate", "cleanup, then launch",
                                       "remove, then launch", "restore, then launch"}
                             => active = 0
                        /\ pc'[u] \in {"kill, then launch", "finish, then launch"}
                             => active \in {0, sess[u]}
    BY <1>2, InsideMoves DEF Starting
  <2>2. CASE u = t
    BY <1>2, <2>2, InsideMoves DEF Starting, CleanerLabels
  <2>3. CASE u # t
    BY <1>2, <2>3, InsideMoves DEF Starting
  <2>4. QED
    BY <2>2, <2>3
<1>3. ASSUME NEW t \in Thread, Launch(t)
      PROVE  Starting'
  BY <1>3, LaunchMoves, Bounds DEF Starting, ActiveOpen, InStart
<1>4. ASSUME NEW t \in Thread, Activate(t)
      PROVE  Starting'
  BY <1>4, ActivateMoves, Bounds DEF Starting, ActiveOpen, InStart
<1>5. ASSUME NEW t \in Thread, Finish(t)
      PROVE  Starting'
  BY <1>5, FinishMoves, Bounds DEF Starting, ActiveOpen, InStart
<1>6. ASSUME NEW t \in Thread, Cleanup(t)
      PROVE  Starting'
  BY <1>6, CleanupMoves, Bounds DEF Starting, ActiveOpen, InStart
<1>7. ASSUME NEW t \in Thread, Restore(t)
      PROVE  Starting'
  BY <1>7, RestoreMoves, Bounds DEF Starting, ActiveOpen, InStart
<1>8. ASSUME NEW n \in Session, NEW g \in 0..MaxGen, Exited(n, g)
      PROVE  Starting'
  BY <1>8, ExitedMoves, Bounds DEF Starting, ActiveOpen, InStart
<1>9. CASE Around
  BY <1>9, AroundMoves, Bounds DEF Starting, ActiveOpen, InStart
<1>10. QED
  BY <1>1, <1>2, <1>3, <1>4, <1>5, <1>6, <1>7, <1>8, <1>9, SessionCases

LEMMA UnsharedStep ==
  ASSUME StateTypes, OneStarter, WorksOnSession, Room, Fresh, Starting, Unshared,
         [SideloadNext]_svars
  PROVE  Unshared'
<1> SUFFICES ASSUME NEW v \in Thread, pc'[v] = "activate"
             PROVE  /\ ~closed'[sess'[v]]
                    /\ \A u \in Thread \ {v} : pc'[u] # "idle" => sess'[u] # sess'[v]
  BY DEF Unshared
<1> DEFINE Goal == /\ ~closed'[sess'[v]]
                   /\ \A u \in Thread \ {v} : pc'[u] # "idle" => sess'[u] # sess'[v]
<1>a. ASSUME pc[v] = "activate"
      PROVE  /\ ~closed[sess[v]] /\ active = 0 /\ sess[v] \in Session
             /\ \A u \in Thread \ {v} : pc[u] # "idle" => sess[u] # sess[v]
  BY <1>a, Bounds DEF Unshared, Starting, WorksOnSession
<1>1. ASSUME NEW t \in Handlers, Start(t) \/ Stop(t) \/ Update(t)
      PROVE  Goal
  <2>1. v # t /\ pc[v] = "activate" /\ sess'[v] = sess[v] /\ UNCHANGED closed
    BY <1>1, RequestMoves
  <2>2. sess'[t] = 0 /\ sess[v] # 0
    BY <1>1, <2>1, <1>a, RequestMoves DEF Session
  <2>3. QED
    BY <1>1, <2>1, <2>2, <1>a, RequestMoves
<1>2. ASSUME NEW t \in Thread, Inside(t)
      PROVE  Goal
  <2>1. v # t /\ pc[v] = "activate" /\ sess' = sess /\ UNCHANGED closed
    BY <1>2, InsideMoves
  <2>2. QED
    BY <1>2, <2>1, <1>a, InsideMoves
<1>3. ASSUME NEW t \in Thread, Launch(t)
      PROVE  Goal
  <2>1. CASE v = t
    <3>1. ~closed'[sess'[v]]
      BY <1>3, <2>1, LaunchMoves DEF Fresh
    <3>2. ASSUME NEW u \in Thread \ {v}, pc'[u] # "idle"
          PROVE  sess'[u] # sess'[v]
      <4>1. pc[u] # "idle" /\ pc[u] # "launch" /\ sess'[u] = sess[u]
        BY <1>3, <2>1, <3>2, LaunchMoves DEF InStart
      <4>2. sess[u] \in 1..sessions
        BY <4>1 DEF WorksOnSession
      <4>3. QED
        BY <1>3, <2>1, <4>1, <4>2, LaunchMoves
    <3>3. QED
      BY <3>1, <3>2
  <2>2. CASE v # t
    BY <1>3, <2>2, LaunchMoves DEF InStart
  <2>3. QED
    BY <2>1, <2>2
<1>4. ASSUME NEW t \in Thread, Activate(t)
      PROVE  Goal
  BY <1>4, ActivateMoves DEF InStart
<1>5. ASSUME NEW t \in Thread, Finish(t)
      PROVE  Goal
  <2>1. v # t /\ pc[v] = "activate" /\ sess' = sess
    BY <1>5, FinishMoves
  <2>2. sess[t] # sess[v] /\ sess[t] \in Session
    BY <1>5, <2>1, <1>a, FinishMoves
  <2>3. closed'[sess[v]] = closed[sess[v]]
    BY <1>5, <2>1, <2>2, <1>a, FinishMoves DEF StateTypes
  <2>4. QED
    BY <1>5, <2>1, <2>2, <2>3, <1>a, FinishMoves
<1>6. ASSUME NEW t \in Thread, Cleanup(t)
      PROVE  Goal
  <2>1. v # t /\ pc[v] = "activate" /\ sess' = sess /\ UNCHANGED closed
    BY <1>6, CleanupMoves
  <2>2. QED
    BY <1>6, <2>1, <1>a, CleanupMoves
<1>7. ASSUME NEW t \in Thread, Restore(t)
      PROVE  Goal
  <2>1. v # t /\ pc[v] = "activate" /\ sess' = sess /\ UNCHANGED closed
    BY <1>7, RestoreMoves
  <2>2. QED
    BY <1>7, <2>1, <1>a, RestoreMoves
<1>8. ASSUME NEW n \in Session, NEW g \in 0..MaxGen, Exited(n, g)
      PROVE  Goal
  <2>1. v # Observer(n) /\ pc[v] = "activate" /\ sess'[v] = sess[v] /\ UNCHANGED closed
    BY <1>8, ExitedMoves
  <2>2. pc'[Observer(n)] = "idle"
    BY <1>8, <2>1, <1>a, ExitedMoves
  <2>3. QED
    BY <1>8, <2>1, <2>2, <1>a, ExitedMoves
<1>9. CASE Around
  BY <1>9, <1>a, AroundMoves
<1>10. QED
  BY <1>1, <1>2, <1>3, <1>4, <1>5, <1>6, <1>7, <1>8, <1>9, SessionCases

\* A step starts a cleanup with the closing of its session, or ends one with
\* the exit event, or changes nothing that matters to cleaning up.
LEMMA CleaningCases ==
  ASSUME StateTypes, OneStarter, WorksOnSession, Room, [SideloadNext]_svars
  PROVE  \/ /\ UNCHANGED <<closed, exits>>
            /\ \A m \in Session, u \in Thread : Cleans(u, m)' <=> Cleans(u, m)
         \/ \E t \in Thread, n \in Session :
              /\ ~closed[n] /\ closed' = [closed EXCEPT ![n] = TRUE] /\ UNCHANGED exits
              /\ \A m \in Session, u \in Thread :
                   Cleans(u, m)' <=> (Cleans(u, m) \/ (u = t /\ m = n))
         \/ \E t \in Thread, n \in Session :
              /\ Cleans(t, n) /\ exits' = [exits EXCEPT ![n] = @ + 1] /\ UNCHANGED closed
              /\ \A m \in Session, u \in Thread : Cleans(u, m)' <=> (Cleans(u, m) /\ u # t)
<1> DEFINE Same == \A m \in Session, u \in Thread : Cleans(u, m)' <=> Cleans(u, m)
<1>1. ASSUME NEW t \in Handlers, Start(t) \/ Stop(t) \/ Update(t)
      PROVE  UNCHANGED <<closed, exits>> /\ Same
  BY <1>1, RequestMoves DEF Cleans, CleanerLabels
<1>2. ASSUME NEW t \in Thread, Inside(t)
      PROVE  UNCHANGED <<closed, exits>> /\ Same
  BY <1>2, InsideMoves DEF Cleans, CleanerLabels
<1>3. ASSUME NEW t \in Thread, Launch(t)
      PROVE  UNCHANGED <<closed, exits>> /\ Same
  BY <1>3, LaunchMoves DEF Cleans, CleanerLabels
<1>4. ASSUME NEW t \in Thread, Activate(t)
      PROVE  UNCHANGED <<closed, exits>> /\ Same
  BY <1>4, ActivateMoves DEF Cleans, CleanerLabels
<1>5. ASSUME NEW t \in Thread, Finish(t), closed[sess[t]]
      PROVE  UNCHANGED <<closed, exits>> /\ Same
  BY <1>5, FinishMoves DEF Cleans, CleanerLabels
<1>6. ASSUME NEW t \in Thread, Finish(t), ~closed[sess[t]]
      PROVE  /\ sess[t] \in Session
             /\ closed' = [closed EXCEPT ![sess[t]] = TRUE] /\ UNCHANGED exits
             /\ \A m \in Session, u \in Thread :
                  Cleans(u, m)' <=> (Cleans(u, m) \/ (u = t /\ m = sess[t]))
  BY <1>6, FinishMoves DEF Cleans, CleanerLabels
<1>7. ASSUME NEW t \in Thread, Cleanup(t)
      PROVE  UNCHANGED <<closed, exits>> /\ Same
  BY <1>7, CleanupMoves DEF Cleans, CleanerLabels
<1>8. ASSUME NEW t \in Thread, Restore(t)
      PROVE  /\ sess[t] \in Session /\ Cleans(t, sess[t])
             /\ exits' = [exits EXCEPT ![sess[t]] = @ + 1] /\ UNCHANGED closed
             /\ \A m \in Session, u \in Thread : Cleans(u, m)' <=> (Cleans(u, m) /\ u # t)
  BY <1>8, RestoreMoves DEF Cleans, CleanerLabels
<1>9. ASSUME NEW n \in Session, NEW g \in 0..MaxGen, Exited(n, g)
      PROVE  UNCHANGED <<closed, exits>> /\ Same
  BY <1>9, ExitedMoves DEF Cleans, CleanerLabels
<1>10. CASE Around
  BY <1>10, AroundMoves DEF Cleans
<1>11. QED
  BY <1>1, <1>2, <1>3, <1>4, <1>5, <1>6, <1>7, <1>8, <1>9, <1>10, SessionCases

LEMMA OneCleanerStep ==
  ASSUME StateTypes, OneStarter, WorksOnSession, Room, OneCleaner, [SideloadNext]_svars
  PROVE  OneCleaner'
<1> SUFFICES ASSUME NEW m \in Session, NEW u \in Thread, Cleans(u, m)'
             PROVE  closed'[m] /\ \A v \in Thread : Cleans(v, m)' => v = u
  BY DEF OneCleaner
<1>1. CASE /\ UNCHANGED closed
           /\ \A k \in Session, v \in Thread : Cleans(v, k)' <=> Cleans(v, k)
  BY <1>1 DEF OneCleaner
<1>2. ASSUME NEW t \in Thread, NEW n \in Session,
             ~closed[n], closed' = [closed EXCEPT ![n] = TRUE],
             \A k \in Session, v \in Thread :
               Cleans(v, k)' <=> (Cleans(v, k) \/ (v = t /\ k = n))
      PROVE  closed'[m] /\ \A v \in Thread : Cleans(v, m)' => v = u
  <2>1. \A v \in Thread : ~Cleans(v, n)
    BY <1>2 DEF OneCleaner
  <2>2. CASE m = n
    BY <1>2, <2>1, <2>2 DEF StateTypes
  <2>3. CASE m # n
    BY <1>2, <2>3 DEF OneCleaner, StateTypes
  <2>4. QED
    BY <2>2, <2>3
<1>3. ASSUME NEW t \in Thread, UNCHANGED closed,
             \A k \in Session, v \in Thread : Cleans(v, k)' <=> (Cleans(v, k) /\ v # t)
      PROVE  closed'[m] /\ \A v \in Thread : Cleans(v, m)' => v = u
  BY <1>3 DEF OneCleaner
<1>4. QED
  BY <1>1, <1>2, <1>3, CleaningCases

LEMMA EndsOnceStep ==
  ASSUME StateTypes, OneStarter, WorksOnSession, Room, OneCleaner, EndsOnce,
         [SideloadNext]_svars
  PROVE  EndsOnce'
<1> DEFINE Ended(m) == closed[m] /\ ~\E u \in Thread : Cleans(u, m)
<1> SUFFICES ASSUME NEW m \in Session
             PROVE  exits'[m] = (IF Ended(m)' THEN 1 ELSE 0)
  BY DEF EndsOnce
<1>0. exits[m] = (IF Ended(m) THEN 1 ELSE 0)
  BY DEF EndsOnce
<1>1. CASE /\ UNCHANGED <<closed, exits>>
           /\ \A k \in Session, v \in Thread : Cleans(v, k)' <=> Cleans(v, k)
  <2>1. Ended(m)' <=> Ended(m)
    BY <1>1
  <2>2. QED
    BY <1>0, <1>1, <2>1
<1>2. ASSUME NEW t \in Thread, NEW n \in Session,
             ~closed[n], closed' = [closed EXCEPT ![n] = TRUE], UNCHANGED exits,
             \A k \in Session, v \in Thread :
               Cleans(v, k)' <=> (Cleans(v, k) \/ (v = t /\ k = n))
      PROVE  exits'[m] = (IF Ended(m)' THEN 1 ELSE 0)
  <2>1. CASE m = n
    <3>1. ~Ended(m) /\ ~Ended(m)'
      BY <1>2, <2>1
    <3>2. QED
      BY <1>0, <1>2, <3>1
  <2>2. CASE m # n
    <3>1. Ended(m)' <=> Ended(m)
      BY <1>2, <2>2 DEF StateTypes
    <3>2. QED
      BY <1>0, <1>2, <3>1
  <2>3. QED
    BY <2>1, <2>2
<1>3. ASSUME NEW t \in Thread, NEW n \in Session,
             Cleans(t, n), exits' = [exits EXCEPT ![n] = @ + 1], UNCHANGED closed,
             \A k \in Session, v \in Thread : Cleans(v, k)' <=> (Cleans(v, k) /\ v # t)
      PROVE  exits'[m] = (IF Ended(m)' THEN 1 ELSE 0)
  <2>1. closed[n] /\ \A v \in Thread : Cleans(v, n) => v = t
    BY <1>3 DEF OneCleaner
  <2>2. CASE m = n
    <3>1. ~Ended(m) /\ Ended(m)'
      BY <1>3, <2>1, <2>2
    <3>2. exits'[m] = exits[m] + 1
      BY <1>3, <2>2 DEF StateTypes
    <3>3. QED
      BY <1>0, <3>1, <3>2
  <2>3. CASE m # n
    <3>1. ~Cleans(t, m)
      BY <1>3, <2>3 DEF Cleans
    <3>2. Ended(m)' <=> Ended(m)
      BY <1>3, <3>1
    <3>3. exits'[m] = exits[m]
      BY <1>3, <2>3 DEF StateTypes
    <3>4. QED
      BY <1>0, <3>2, <3>3
  <2>4. QED
    BY <2>2, <2>3
<1>4. QED
  BY <1>1, <1>2, <1>3, CleaningCases

LEMMA SessionInvInit == SideloadInit => SessionInv
<1> SUFFICES ASSUME SideloadInit PROVE SessionInv
  OBVIOUS
<1>1. SideloadTypeOK /\ Room
  BY SideloadTypeInit
<1>2. Fresh /\ ActiveOpen /\ Accounted
  BY DEF SideloadInit, Fresh, ActiveOpen, Accounted
<1>3. Starting /\ Unshared /\ OneCleaner /\ EndsOnce
  BY DEF SideloadInit, Starting, Unshared, OneCleaner, EndsOnce, Cleans, CleanerLabels
<1>4. QED
  BY <1>1, <1>2, <1>3 DEF SessionInv

LEMMA SessionInvStep == SessionInv /\ [SideloadNext]_svars => SessionInv'
<1> SUFFICES ASSUME SessionInv, [SideloadNext]_svars PROVE SessionInv'
  OBVIOUS
<1> USE DEF SessionInv, SideloadTypeOK
<1>1. (SideloadTypeOK /\ Room)'
  BY SideloadTypeStep
<1>2. (Fresh /\ ActiveOpen /\ Accounted)'
  BY FreshStep, ActiveOpenStep, AccountedStep
<1>3. (Starting /\ Unshared)'
  BY StartingStep, UnsharedStep
<1>4. (OneCleaner /\ EndsOnce)'
  BY OneCleanerStep, EndsOnceStep
<1>5. QED
  BY <1>1, <1>2, <1>3, <1>4

\* The inductive invariant holds in every behaviour.
THEOREM SessionInvHolds == SideloadSpec => []SessionInv
BY SessionInvInit, SessionInvStep, PTL DEF SideloadSpec

\* However the requests, the expiry, the exits of the app and the failures of
\* start and update_params interleave, never are two sessions open at once.
THEOREM NoOverlap == SideloadSpec => []OneOpenSession
<1>1. SessionInv => OneOpenSession
  <2> SUFFICES ASSUME SessionInv, NEW m \in 1..sessions, NEW n \in 1..sessions,
                      ~closed[m], ~closed[n]
               PROVE  m = n
    BY DEF OneOpenSession
  <2> USE DEF SessionInv, SideloadTypeOK
  <2>1. CASE active = m /\ active = n
    BY <2>1
  <2>2. ASSUME NEW t \in Thread, pc[t] = "activate"
        PROVE  active = 0 /\ \A u \in Thread : pc[u] = "activate" => u = t
    <3>1. active = 0
      BY <2>2 DEF Starting
    <3>2. \A u \in Thread : pc[u] = "activate" => u = t
      BY <2>2 DEF OneStarter, InStart
    <3>3. QED
      BY <3>1, <3>2
  <2>3. m # 0 /\ n # 0
    BY Bounds
  <2>4. QED
    BY <2>1, <2>2, <2>3 DEF Accounted
<1>2. QED
  BY <1>1, SessionInvHolds, PTL

\* A session ends exactly once: one exit event and one restoration, whoever
\* asks for its end and however often.
THEOREM OneEnd == SideloadSpec => []EndsOnce
<1>1. SessionInv => EndsOnce
  BY DEF SessionInv
<1>2. QED
  BY <1>1, SessionInvHolds, PTL

--------------------------------------------------------------------------------
\* The exit of the app.

\* A thread with one of these labels is about to watch the app of its session, or to end it.
Renews  == {"clear", "relaunch", "install", "finish"}
Notices == Renews \cup {"suspend", "failed", "observe", "kill", "kill, then launch", "finish, then launch"}

\* Between an update's new generation and its process a thread is on the way to install it, or to
\* end the session.
Renewing ==
  \A n \in Session : ~closed[n] /\ generation[n] # current[n] =>
    \E t \in Thread : sess[t] = n /\ pc[t] \in Renews

\* The app of the active session has an observer, or a thread will see to it.
Noticing ==
  \A n \in Session : active = n /\ Proc(n) \notin watched =>
    \E t \in Thread : sess[t] = n /\ pc[t] \in Notices

\* How the steps that neither open nor close a session change the processes of a session.
LEMMA InsideProcs ==
  ASSUME StateTypes, WorksOnSession, NEW t \in Thread, Inside(t)
  PROVE  /\ sess[t] \in Session \/ UNCHANGED <<generation, current, watched>>
         /\ \/ UNCHANGED <<generation, current, watched>>
            \/ /\ pc[t] = "renew" /\ pc'[t] = "clear" /\ UNCHANGED <<current, watched>>
               /\ \A n \in Session \ {sess[t]} : generation'[n] = generation[n]
            \/ /\ pc[t] = "install" /\ pc'[t] = "observe" /\ UNCHANGED <<generation, watched>>
               /\ current'[sess[t]] = generation[sess[t]]
               /\ \A n \in Session \ {sess[t]} : current'[n] = current[n]
            \/ /\ pc[t] = "observe" /\ watched' = watched \cup {Proc(sess[t])}
               /\ UNCHANGED <<generation, current>>
<1>0. pc[t] \notin {"idle", "launch"} => sess[t] \in Session
  BY Bounds DEF WorksOnSession
<1>1. CASE Renew(t)
  BY <1>0, <1>1 DEF Renew, Goto, StateTypes, system
<1>2. CASE Install(t)
  BY <1>0, <1>2 DEF Install, Goto, StateTypes, system
<1>3. CASE Observe(t)
  BY <1>0, <1>3 DEF Observe, manager
<1>4. CASE ~Renew(t) /\ ~Install(t) /\ ~Observe(t)
  BY <1>4 DEF Inside, StopAgain, Kill, LaunchFails, Suspend, SuspendFails, Clear, Relaunch, RelaunchFails,
              manager, system
<1>5. QED
  BY <1>1, <1>2, <1>3, <1>4

LEMMA InsideLabels ==
  ASSUME StateTypes, NEW t \in Thread, Inside(t)
  PROVE  /\ pc[t] \in Renews => pc'[t] \in Renews \/ pc[t] = "install"
         /\ pc[t] \in Notices => \/ pc'[t] \in Notices
                                 \/ pc[t] = "observe" /\ watched' = watched \cup {Proc(sess[t])}
                                                      /\ UNCHANGED current
                                 \/ active # sess[t]
<1> USE DEF StateTypes, Goto, Renews, Notices
<1>1. CASE StopAgain(t)
  BY <1>1 DEF StopAgain
<1>2. CASE Kill(t) \/ LaunchFails(t)
  BY <1>2 DEF Kill, LaunchFails
<1>3. CASE Suspend(t) \/ SuspendFails(t)
  BY <1>3 DEF Suspend, SuspendFails
<1>4. CASE Observe(t)
  BY <1>4 DEF Observe, manager
<1>5. CASE Renew(t) \/ Clear(t) \/ Relaunch(t) \/ RelaunchFails(t) \/ Install(t)
  BY <1>5 DEF Renew, Clear, Relaunch, RelaunchFails, Install
<1>6. QED
  BY <1>1, <1>2, <1>3, <1>4, <1>5 DEF Inside

\* The other steps but for the exit of a process leave the processes of the sessions alone.
LEMMA ProcsStay ==
  ASSUME \/ \E t \in Handlers : Start(t) \/ Stop(t) \/ Update(t)
         \/ \E t \in Thread : Launch(t) \/ Activate(t) \/ Finish(t) \/ Cleanup(t) \/ Restore(t)
         \/ Around
  PROVE  UNCHANGED <<generation, current, watched>>
BY DEF Start, Stop, Update, Launch, Activate, Finish, Cleanup, Unlink, RemoveFiles, Restore, Around, LoopTop, LoopInit, LoopLoads, LoopClears, AppExits,
       manager, system, svars

LEMMA RenewingStep ==
  ASSUME SessionInv, Renewing, [SideloadNext]_svars
  PROVE  Renewing'
<1> USE DEF SessionInv, SideloadTypeOK
<1> SUFFICES ASSUME NEW n \in Session, ~closed'[n], generation'[n] # current'[n]
             PROVE  \E u \in Thread : sess'[u] = n /\ pc'[u] \in Renews
  BY DEF Renewing
<1>a. ASSUME ~closed[n], generation[n] # current[n]
      PROVE  \E u \in Thread : sess[u] = n /\ pc[u] \in Renews
  BY <1>a DEF Renewing
<1>1. ASSUME NEW t \in Handlers, Start(t) \/ Stop(t) \/ Update(t)
      PROVE  \E u \in Thread : sess'[u] = n /\ pc'[u] \in Renews
  <2>1. UNCHANGED <<generation, current, closed>>
    BY <1>1, ProcsStay, RequestMoves
  <2>2. PICK u \in Thread : sess[u] = n /\ pc[u] \in Renews
    BY <1>a, <2>1
  <2>3. u # t
    BY <1>1, <2>2, RequestMoves DEF Renews
  <2>4. QED
    BY <1>1, <2>2, <2>3, RequestMoves
<1>2. ASSUME NEW t \in Thread, Inside(t)
      PROVE  \E u \in Thread : sess'[u] = n /\ pc'[u] \in Renews
  <2>1. ~closed[n] /\ UNCHANGED sess /\ \A u \in Thread \ {t} : pc'[u] = pc[u]
    BY <1>2, InsideMoves
  <2>2. CASE sess[t] = n /\ pc[t] = "renew" /\ pc'[t] = "clear"
    BY <2>1, <2>2 DEF Renews
  <2>3. CASE sess[t] = n /\ pc[t] = "install" /\ pc'[t] = "observe" /\ UNCHANGED generation
             /\ current'[n] = generation[n]
    BY <2>3
  <2>4. CASE generation'[n] = generation[n] /\ current'[n] = current[n] /\ ~(sess[t] = n /\ pc[t] = "install")
    <3>1. PICK u \in Thread : sess[u] = n /\ pc[u] \in Renews
      BY <1>a, <2>1, <2>4
    <3>2. CASE u = t
      BY <1>2, <2>1, <2>4, <3>1, <3>2, InsideLabels
    <3>3. CASE u # t
      BY <2>1, <3>1, <3>3
    <3>4. QED
      BY <3>2, <3>3
  <2>5. CASE sess[t] = n /\ pc[t] = "install" /\ UNCHANGED <<generation, current, watched>>
    <3>1. pc'[t] = "observe" /\ current' = [current EXCEPT ![n] = generation[n]]
      BY <1>2, <2>5 DEF Inside, StopAgain, Kill, LaunchFails, Suspend, SuspendFails, Observe, Renew, Clear,
                        Relaunch, RelaunchFails, Install, Goto, StateTypes
    <3>2. QED
      BY <2>5, <3>1 DEF StateTypes
  <2>6. QED
    BY <1>2, <2>2, <2>3, <2>4, <2>5, InsideProcs
<1>3. ASSUME NEW t \in Thread, Launch(t)
      PROVE  \E u \in Thread : sess'[u] = n /\ pc'[u] \in Renews
  <2>1. UNCHANGED <<generation, current, closed>>
    BY <1>3, ProcsStay, LaunchMoves
  <2>2. PICK u \in Thread : sess[u] = n /\ pc[u] \in Renews
    BY <1>a, <2>1
  <2>3. u # t
    BY <1>3, <2>2, LaunchMoves DEF Renews
  <2>4. QED
    BY <1>3, <2>2, <2>3, LaunchMoves
<1>4. ASSUME NEW t \in Thread, Activate(t)
      PROVE  \E u \in Thread : sess'[u] = n /\ pc'[u] \in Renews
  <2>1. UNCHANGED <<generation, current, closed>>
    BY <1>4, ProcsStay, ActivateMoves
  <2>2. PICK u \in Thread : sess[u] = n /\ pc[u] \in Renews
    BY <1>a, <2>1
  <2>3. u # t
    BY <1>4, <2>2, ActivateMoves DEF Renews
  <2>4. QED
    BY <1>4, <2>2, <2>3, ActivateMoves
<1>5. ASSUME NEW t \in Thread, Finish(t)
      PROVE  \E u \in Thread : sess'[u] = n /\ pc'[u] \in Renews
  <2>1. UNCHANGED <<generation, current>>
    BY <1>5, ProcsStay
  <2>2. closed'[sess[t]] /\ (closed[n] => closed'[n])
    BY <1>5, FinishMoves DEF StateTypes
  <2>3. PICK u \in Thread : sess[u] = n /\ pc[u] \in Renews
    BY <1>a, <2>1, <2>2
  <2>4. u # t
    BY <2>2, <2>3
  <2>5. QED
    BY <1>5, <2>3, <2>4, FinishMoves
<1>6. ASSUME NEW t \in Thread, Cleanup(t) \/ Restore(t)
      PROVE  \E u \in Thread : sess'[u] = n /\ pc'[u] \in Renews
  <2>1. UNCHANGED <<generation, current, closed, sess>>
    BY <1>6, ProcsStay, CleanupMoves, RestoreMoves
  <2>2. PICK u \in Thread : sess[u] = n /\ pc[u] \in Renews
    BY <1>a, <2>1
  <2>3. u # t /\ \A v \in Thread \ {t} : pc'[v] = pc[v]
    BY <1>6, <2>2, CleanupMoves, RestoreMoves DEF Renews
  <2>4. QED
    BY <2>1, <2>2, <2>3
<1>7. ASSUME NEW m \in Session, NEW g \in 0..MaxGen, Exited(m, g)
      PROVE  \E u \in Thread : sess'[u] = n /\ pc'[u] \in Renews
  <2>1. UNCHANGED <<generation, current, closed>>
    BY <1>7 DEF Exited, manager
  <2>2. PICK u \in Thread : sess[u] = n /\ pc[u] \in Renews
    BY <1>a, <2>1
  <2>3. u # Observer(m)
    BY <1>7, <2>2, ExitedMoves DEF Renews
  <2>4. QED
    BY <1>7, <2>2, <2>3, ExitedMoves
<1>8. CASE Around
  BY <1>a, <1>8, ProcsStay, AroundMoves
<1>9. QED
  BY <1>1, <1>2, <1>3, <1>4, <1>5, <1>6, <1>7, <1>8, SessionCases

LEMMA NoticingStep ==
  ASSUME SessionInv, Renewing, Noticing, [SideloadNext]_svars
  PROVE  Noticing'
<1> USE DEF SessionInv, SideloadTypeOK
<1> SUFFICES ASSUME NEW n \in Session, active' = n, <<n, current'[n]>> \notin watched'
             PROVE  \E u \in Thread : sess'[u] = n /\ pc'[u] \in Notices
  BY DEF Noticing, Proc
<1>a. ASSUME active = n, <<n, current[n]>> \notin watched
      PROVE  \E u \in Thread : sess[u] = n /\ pc[u] \in Notices
  BY <1>a DEF Noticing, Proc
<1>b. n # 0
  BY DEF Session
<1>1. ASSUME NEW t \in Handlers, Start(t) \/ Stop(t) \/ Update(t)
      PROVE  \E u \in Thread : sess'[u] = n /\ pc'[u] \in Notices
  <2>1. UNCHANGED <<current, watched, active>>
    BY <1>1, ProcsStay, RequestMoves
  <2>2. PICK u \in Thread : sess[u] = n /\ pc[u] \in Notices
    BY <1>a, <2>1
  <2>3. u # t
    BY <1>1, <2>2, RequestMoves DEF Notices, Renews
  <2>4. QED
    BY <1>1, <2>2, <2>3, RequestMoves
<1>2. ASSUME NEW t \in Thread, Inside(t)
      PROVE  \E u \in Thread : sess'[u] = n /\ pc'[u] \in Notices
  <2>1. active = n /\ UNCHANGED sess /\ \A u \in Thread \ {t} : pc'[u] = pc[u]
    BY <1>2, InsideMoves
  <2>2. CASE sess[t] = n /\ pc[t] = "install" /\ pc'[t] = "observe"
    BY <2>1, <2>2 DEF Notices
  <2>3. CASE current'[n] = current[n]
    <3>1. watched \subseteq watched'
      BY <1>2, InsideProcs
    <3>2. PICK u \in Thread : sess[u] = n /\ pc[u] \in Notices
      BY <1>a, <2>1, <2>3, <3>1
    <3>3. CASE u = t
      <4>1. pc'[t] \in Notices \/ watched' = watched \cup {Proc(sess[t])}
        BY <1>2, <2>1, <3>2, <3>3, InsideLabels
      <4>2. CASE watched' = watched \cup {Proc(sess[t])}
        BY <2>3, <3>2, <3>3, <4>2 DEF Proc
      <4>3. QED
        BY <2>1, <3>2, <3>3, <4>1, <4>2
    <3>4. CASE u # t
      BY <2>1, <3>2, <3>4
    <3>5. QED
      BY <3>3, <3>4
  <2>4. QED
    BY <1>2, <2>2, <2>3, InsideProcs
<1>3. ASSUME NEW t \in Thread, Launch(t)
      PROVE  \E u \in Thread : sess'[u] = n /\ pc'[u] \in Notices
  <2>1. UNCHANGED <<current, watched, active>>
    BY <1>3, ProcsStay, LaunchMoves
  <2>2. PICK u \in Thread : sess[u] = n /\ pc[u] \in Notices
    BY <1>a, <2>1
  <2>3. u # t
    BY <1>3, <2>2, LaunchMoves DEF Notices, Renews
  <2>4. QED
    BY <1>3, <2>2, <2>3, LaunchMoves
<1>4. ASSUME NEW t \in Thread, Activate(t)
      PROVE  \E u \in Thread : sess'[u] = n /\ pc'[u] \in Notices
  BY <1>4, ActivateMoves DEF Notices
<1>5. ASSUME NEW t \in Thread, Finish(t)
      PROVE  \E u \in Thread : sess'[u] = n /\ pc'[u] \in Notices
  <2>1. UNCHANGED <<current, watched>>
    BY <1>5, ProcsStay
  <2>2. active = n /\ sess[t] # n
    BY <1>5, <1>b, FinishMoves DEF ActiveOpen
  <2>3. PICK u \in Thread : sess[u] = n /\ pc[u] \in Notices
    BY <1>a, <2>1, <2>2
  <2>4. u # t
    BY <2>2, <2>3
  <2>5. QED
    BY <1>5, <2>3, <2>4, FinishMoves
<1>6. ASSUME NEW t \in Thread, Cleanup(t) \/ Restore(t)
      PROVE  \E u \in Thread : sess'[u] = n /\ pc'[u] \in Notices
  <2>1. UNCHANGED <<current, watched, active, sess>>
    BY <1>6, ProcsStay, CleanupMoves, RestoreMoves
  <2>2. PICK u \in Thread : sess[u] = n /\ pc[u] \in Notices
    BY <1>a, <2>1
  <2>3. u # t /\ \A v \in Thread \ {t} : pc'[v] = pc[v]
    BY <1>6, <2>2, CleanupMoves, RestoreMoves DEF Notices, Renews
  <2>4. QED
    BY <2>1, <2>2, <2>3
<1>7. ASSUME NEW m \in Session, NEW g \in 0..MaxGen, Exited(m, g)
      PROVE  \E u \in Thread : sess'[u] = n /\ pc'[u] \in Notices
  <2>1. UNCHANGED <<generation, current, closed, active>> /\ watched' = watched \ {<<m, g>>} /\ active = n
    BY <1>7 DEF Exited, manager
  <2>2. ASSUME NEW u \in Thread, sess[u] = n, pc[u] \in Notices
        PROVE  sess'[u] = n /\ pc'[u] \in Notices
    <3>1. u # Observer(m)
      BY <1>7, <2>2, ExitedMoves DEF Notices, Renews
    <3>2. QED
      BY <1>7, <2>2, <3>1, ExitedMoves
  <2>3. CASE <<n, current[n]>> \notin watched
    BY <1>a, <2>1, <2>2, <2>3
  <2>4. CASE <<n, current[n]>> \in watched
    <3>1. m = n /\ g = current[n] /\ ~closed[n]
      BY <1>b, <2>1, <2>4 DEF ActiveOpen
    <3>2. CASE generation[n] = current[n]
      <4>1. pc'[Observer(n)] = "finish"
        BY <1>7, <2>1, <3>1, <3>2, Threads DEF Exited, Goto, StateTypes
      <4>2. QED
        BY <1>7, <3>1, <4>1, ExitedMoves DEF Notices, Renews
    <3>3. CASE generation[n] # current[n]
      <4>1. PICK u \in Thread : sess[u] = n /\ pc[u] \in Renews
        BY <3>1, <3>3 DEF Renewing
      <4>2. QED
        BY <2>2, <4>1 DEF Notices
    <3>4. QED
      BY <3>2, <3>3
  <2>5. QED
    BY <2>3, <2>4
<1>8. CASE Around
  BY <1>a, <1>8, ProcsStay, AroundMoves
<1>9. QED
  BY <1>1, <1>2, <1>3, <1>4, <1>5, <1>6, <1>7, <1>8, SessionCases

\* The safety half of DeadAppEndsSession: when the app of the active session does not run, its
\* observer waits for just that process, or a thread is on the way to watch or to end the
\* session, however the exit of the app overlaps with updates, stops and failures.
THEOREM DeadAppIsNoticed ==
  SideloadSpec => [](\A n \in Session : active = n /\ Proc(n) \notin alive =>
                       \/ Proc(n) \in watched \ alive
                       \/ \E t \in Thread : sess[t] = n /\ pc[t] \in Notices)
<1>1. SideloadInit => SessionInv /\ Renewing /\ Noticing
  BY SessionInvInit DEF SideloadInit, Renewing, Noticing, Session
<1>2. SessionInv /\ Renewing /\ Noticing /\ [SideloadNext]_svars => (SessionInv /\ Renewing /\ Noticing)'
  BY SessionInvStep, RenewingStep, NoticingStep
<1>3. Noticing => \A n \in Session : active = n /\ Proc(n) \notin alive =>
                       \/ Proc(n) \in watched \ alive
                       \/ \E t \in Thread : sess[t] = n /\ pc[t] \in Notices
  BY DEF Noticing
<1>4. QED
  BY <1>1, <1>2, <1>3, PTL DEF SideloadSpec
================================================================================
