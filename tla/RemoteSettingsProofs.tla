-------------------------- MODULE RemoteSettingsProofs -------------------------
(***************************************************************************)
(* Proofs about RemoteSettings for every set of values and threads and     *)
(* every number of changes.                                                *)
(***************************************************************************)
EXTENDS RemoteSettings, FiniteSetTheorems, TLAPS

\* A thread that changes the setting has a value to set.
TasksOK == \A t \in Setter : task[t].step # "idle" => task[t].value \in Value

\* Each change is in one place: in its thread, in the timer that waits, or among the
\* timers that are on their own.
Busy == {t \in Setter : task[t].step # "idle"}

Waiting == IF armed THEN 1 ELSE 0

Counted == IsFiniteSet(Busy) /\ loose + Waiting + Cardinality(Busy) <= changes

IInv == SettingTypeOK /\ TasksOK /\ Counted /\ PendingHasTimer

\* The two facts about Busy that the steps need.
LEMMA BusyGrows ==
  ASSUME IInv, NEW t \in Setter, task[t].step = "idle", Busy' = Busy \cup {t}
  PROVE  IsFiniteSet(Busy') /\ Cardinality(Busy') = Cardinality(Busy) + 1 /\ Cardinality(Busy) \in Nat
<1>1. IsFiniteSet(Busy) /\ t \notin Busy
  BY DEF IInv, Counted, Busy
<1>2. QED
  BY <1>1, FS_AddElement, FS_CardinalityType

LEMMA BusyShrinks ==
  ASSUME IInv, NEW t \in Setter, task[t].step # "idle", Busy' = Busy \ {t}
  PROVE  IsFiniteSet(Busy') /\ Cardinality(Busy') = Cardinality(Busy) - 1 /\ Cardinality(Busy) \in Nat
<1>1. IsFiniteSet(Busy) /\ t \in Busy
  BY DEF IInv, Counted, Busy
<1>2. QED
  BY <1>1, FS_RemoveElement, FS_CardinalityType

LEMMA BusySize == IInv => Cardinality(Busy) \in Nat
BY FS_CardinalityType DEF IInv, Counted

LEMMA IdleTask == Idle \in Task
BY DEF Idle, Task, Maybe

\* The inductive invariant of the settings holds at boot.
THEOREM Initial == SettingInit => IInv
<1> SUFFICES ASSUME SettingInit PROVE IInv
  OBVIOUS
<1>1. SettingTypeOK
  <2>1. row \in Snapshot /\ print = row
    BY DEF SettingInit, Snapshot
  <2>2. row.value \in Value
    BY <2>1 DEF Snapshot
  <2>3. /\ inbox \in Seq(Snapshot) /\ now \in Nat /\ seen \in Nat
        /\ changes \in 0..MaxChange /\ loose \in 0..changes
    BY SettingAssumption DEF SettingInit
  <2>4. task \in [Setter -> Task]
    BY IdleTask DEF SettingInit
  <2>5. /\ server \in Maybe /\ pending \in Maybe /\ taken \in Maybe /\ acked \in Maybe
        /\ dev \in Value
    BY <2>2 DEF SettingInit, Maybe
  <2>6. QED
    BY <2>1, <2>3, <2>4, <2>5 DEF SettingInit, SettingTypeOK
<1>2. TasksOK
  BY DEF SettingInit, TasksOK, Idle
<1>3. Counted
  <2>1. Busy = {}
    BY DEF SettingInit, Busy, Idle
  <2>2. QED
    BY <2>1, FS_EmptySet DEF Counted, SettingInit, Waiting
<1>4. PendingHasTimer
  BY DEF SettingInit, PendingHasTimer
<1>5. QED
  BY <1>1, <1>2, <1>3, <1>4 DEF IInv
--------------------------------------------------------------------------------
\* A change of the row is a snapshot of the right type.
LEMMA WriteType ==
  ASSUME IInv, NEW v \in Value, NEW from \in {"app", "bridge"}, Write(v, from)
  PROVE  row' \in Snapshot /\ inbox' \in Seq(Snapshot) /\ now' \in Nat
<1>1. now' \in Nat
  BY DEF Write, IInv, SettingTypeOK
<1>2. row' \in Snapshot
  BY <1>1 DEF Write, Snapshot
<1>3. QED
  BY <1>1, <1>2 DEF Write, IInv, SettingTypeOK

LEMMA Counts ==
  ASSUME IInv, Change
  PROVE  changes' = changes + 1 /\ changes \in Nat /\ changes' \in 0..MaxChange
BY SettingAssumption DEF IInv, SettingTypeOK, Change

\* The steps that leave tasks and timers alone.
LEMMA CloudStep == IInv /\ (AppSets \/ OtherPublished \/ SentAgain) => IInv'
<1> SUFFICES ASSUME IInv, AppSets \/ OtherPublished \/ SentAgain PROVE IInv'
  OBVIOUS
<1>1. changes' = changes + 1 /\ changes \in Nat /\ changes' \in 0..MaxChange
  BY Counts DEF AppSets, OtherPublished, SentAgain
<1>2. row' \in Snapshot /\ inbox' \in Seq(Snapshot) /\ now' \in Nat
  <2>1. CASE AppSets
    BY <2>1, WriteType DEF AppSets
  <2>2. CASE OtherPublished
    <3>1. row.value \in Value
      BY DEF IInv, SettingTypeOK, Snapshot
    <3>2. QED
      BY <2>2, <3>1, WriteType DEF OtherPublished
  <2>3. CASE SentAgain
    BY <2>3 DEF SentAgain, IInv, SettingTypeOK
  <2>4. QED
    BY <2>1, <2>2, <2>3
<1>3. UNCHANGED <<inbound, dev, local, debouncer, outbox>> /\ lost' \in BOOLEAN
  BY DEF AppSets, OtherPublished, SentAgain, IInv, SettingTypeOK
<1>4. SettingTypeOK'
  BY <1>1, <1>2, <1>3 DEF IInv, SettingTypeOK, inbound, local, debouncer, outbox
<1>5. TasksOK' /\ PendingHasTimer'
  BY <1>3 DEF IInv, TasksOK, PendingHasTimer, local, debouncer
<1>6. Counted'
  <2>1. Busy' = Busy /\ Waiting' = Waiting /\ loose' = loose
    BY <1>3 DEF Busy, Waiting, local, debouncer
  <2>2. Waiting \in Nat /\ loose \in Nat
    BY DEF Waiting, IInv, SettingTypeOK
  <2>3. QED
    BY <1>1, <2>1, <2>2, BusySize DEF Counted, IInv
<1>7. QED
  BY <1>4, <1>5, <1>6 DEF IInv

\* Steps that change neither tasks nor timers nor the count of changes.
LEMMA Beside ==
  ASSUME IInv, SettingTypeOK', UNCHANGED <<task, pending, armed, loose, changes>>
  PROVE  IInv'
<1>1. TasksOK' /\ PendingHasTimer'
  BY DEF IInv, TasksOK, PendingHasTimer
<1>2. Counted'
  <2>1. Busy' = Busy /\ Waiting' = Waiting
    BY DEF Busy, Waiting
  <2>2. QED
    BY <2>1 DEF Counted, IInv
<1>3. QED
  BY <1>1, <1>2 DEF IInv

LEMMA OutboxStep == IInv /\ (HandOver \/ Deliver \/ Ack) => IInv'
<1> SUFFICES ASSUME IInv, HandOver \/ Deliver \/ Ack PROVE IInv'
  OBVIOUS
<1>1. UNCHANGED <<task, pending, armed, loose, changes>>
  BY DEF HandOver, Deliver, Ack, local, debouncer, cloud
<1>2. SettingTypeOK'
  <2>1. CASE HandOver
    <3>1. taken \in Value /\ taken' \in Maybe
      BY <2>1 DEF HandOver, IInv, SettingTypeOK, Maybe
    <3>2. entry' = entry \/ entry' = [value |-> taken, applied |-> FALSE]
      BY <2>1 DEF HandOver
    <3>3. entry' \in [value : Value, applied : BOOLEAN] \cup {Nothing}
      <4>1. entry \in [value : Value, applied : BOOLEAN] \cup {Nothing}
        BY DEF IInv, SettingTypeOK
      <4>2. [value |-> taken, applied |-> FALSE] \in [value : Value, applied : BOOLEAN]
        BY <3>1
      <4>3. QED
        BY <3>2, <4>1, <4>2
    <3>4. lost' \in BOOLEAN
      BY <2>1 DEF HandOver
    <3>5. QED
      BY <1>1, <2>1, <3>1, <3>3, <3>4 DEF HandOver, IInv, SettingTypeOK, cloud, inbound, local
  <2>2. CASE Deliver
    <3>1. entry.value \in Value /\ entry' \in [value : Value, applied : BOOLEAN]
      BY <2>2 DEF Deliver, IInv, SettingTypeOK
    <3>2. row' \in Snapshot /\ inbox' \in Seq(Snapshot) /\ now' \in Nat
      BY <2>2, <3>1, WriteType DEF Deliver
    <3>3. QED
      BY <2>2, <3>1, <3>2 DEF Deliver, IInv, SettingTypeOK, inbound, local, debouncer
  <2>3. CASE Ack
    BY <2>3 DEF Ack, IInv, SettingTypeOK, cloud, inbound, local, debouncer, Maybe
  <2>4. QED
    BY <2>1, <2>2, <2>3
<1>3. QED
  BY <1>1, <1>2, Beside

LEMMA ServerStep == IInv /\ (Receive \/ Store \/ GuardEnds) => IInv'
<1> SUFFICES ASSUME IInv, Receive \/ Store \/ GuardEnds PROVE IInv'
  OBVIOUS
<1>1. UNCHANGED <<task, pending, armed, loose, changes>>
  BY DEF Receive, Store, GuardEnds, local, debouncer, cloud
<1>2. SettingTypeOK'
  <2>1. CASE Receive
    <3> DEFINE s == Head(inbox)
    <3>1. s \in Snapshot /\ Tail(inbox) \in Seq(Snapshot)
      BY <2>1 DEF Receive, IInv, SettingTypeOK
    <3>2. s.value \in Value /\ s.at \in Nat
      BY <3>1 DEF Snapshot
    <3> HIDE DEF s
    <3>3. seen' \in Nat /\ print' \in Snapshot /\ server' \in Maybe
      <4>1. CASE Refused(s)
        BY <2>1, <4>1 DEF Receive, s, IInv, SettingTypeOK, inbound
      <4>2. CASE ~Refused(s)
        <5>1. /\ seen' = IF s.at > seen THEN s.at ELSE seen
              /\ print' = s
              /\ server' = IF s.value # dev /\ Accepted(s) THEN s.value ELSE Nothing
          BY <2>1, <4>2 DEF Receive, s
        <5>2. QED
          BY <5>1, <3>1, <3>2 DEF IInv, SettingTypeOK, Maybe
      <4>3. QED
        BY <4>1, <4>2
    <3>4. QED
      BY <2>1, <3>1, <3>3 DEF Receive, s, IInv, SettingTypeOK, local, debouncer, outbox
  <2>2. CASE Store
    BY <2>2 DEF Store, IInv, SettingTypeOK, cloud, local, debouncer, outbox, Maybe
  <2>3. CASE GuardEnds
    BY <2>3 DEF GuardEnds, IInv, SettingTypeOK, cloud, inbound, debouncer, outbox
  <2>4. QED
    BY <2>1, <2>2, <2>3
<1>3. QED
  BY <1>1, <1>2, Beside
--------------------------------------------------------------------------------
\* A change on the device.
LEMMA SetBeginsStep == \A t \in Setter : IInv /\ SetBegins(t) => IInv'
<1> SUFFICES ASSUME IInv, NEW t \in Setter, SetBegins(t) PROVE IInv'
  OBVIOUS
<1>1. changes' = changes + 1 /\ changes \in Nat /\ changes' \in 0..MaxChange
  BY Counts DEF SetBegins
<1>2. PICK v \in Value : task' = [task EXCEPT ![t] = [step |-> "set", value |-> v, publish |-> dev # v]]
  BY DEF SetBegins
<1>3. task' \in [Setter -> Task]
  BY <1>2 DEF IInv, SettingTypeOK, Task, Maybe
<1>4. SettingTypeOK'
  <2>1. crossing' \subseteq Setter
    BY DEF SetBegins, Others, IInv, SettingTypeOK
  <2>2. QED
    BY <1>1, <1>3, <2>1 DEF SetBegins, IInv, SettingTypeOK, inbound, debouncer, outbox
<1>5. TasksOK' /\ PendingHasTimer'
  BY <1>2 DEF IInv, SettingTypeOK, TasksOK, PendingHasTimer, SetBegins, debouncer
<1>6. Counted'
  <2>1. Busy' = Busy \cup {t} /\ task[t].step = "idle"
    BY <1>2 DEF Busy, SetBegins, IInv, SettingTypeOK
  <2>2. Waiting' = Waiting /\ loose' = loose /\ Waiting \in Nat /\ loose \in Nat
    BY DEF Waiting, SetBegins, debouncer, IInv, SettingTypeOK
  <2>3. IsFiniteSet(Busy') /\ Cardinality(Busy') = Cardinality(Busy) + 1 /\ Cardinality(Busy) \in Nat
    BY <2>1, BusyGrows
  <2>4. QED
    BY <1>1, <2>2, <2>3 DEF Counted, IInv
<1>7. QED
  BY <1>4, <1>5, <1>6 DEF IInv

LEMMA SetStep == \A t \in Setter : IInv /\ Set(t) => IInv'
<1> SUFFICES ASSUME IInv, NEW t \in Setter, Set(t) PROVE IInv'
  OBVIOUS
<1>1. task[t] \in Task /\ task[t].value \in Value /\ task[t].step = "set"
  BY DEF Set, IInv, TasksOK, SettingTypeOK
<1>2. dev' \in Value /\ lost' \in BOOLEAN
  BY <1>1 DEF Set, IInv, SettingTypeOK
<1>3. CASE task[t].publish
  <2>1. task' = [task EXCEPT ![t].step = "note"]
    BY <1>3 DEF Set, Goes
  <2>2. task' \in [Setter -> Task]
    BY <1>1, <2>1 DEF IInv, SettingTypeOK, Task
  <2>3. SettingTypeOK'
    BY <1>2, <2>2 DEF Set, IInv, SettingTypeOK, cloud, inbound, debouncer, outbox
  <2>4. TasksOK' /\ PendingHasTimer'
    BY <1>1, <2>1 DEF IInv, SettingTypeOK, TasksOK, PendingHasTimer, Set, debouncer
  <2>5. Busy' = Busy
    BY <1>1, <2>1 DEF Busy, IInv, SettingTypeOK
  <2>6. QED
    BY <2>3, <2>4, <2>5 DEF IInv, Counted, Waiting, Set, cloud, debouncer
<1>4. CASE ~task[t].publish
  <2>1. task' = [task EXCEPT ![t] = Idle]
    BY <1>4 DEF Set
  <2>2. task' \in [Setter -> Task]
    BY <2>1, IdleTask DEF IInv, SettingTypeOK
  <2>3. SettingTypeOK'
    BY <1>2, <2>2 DEF Set, IInv, SettingTypeOK, cloud, inbound, debouncer, outbox
  <2>4. TasksOK' /\ PendingHasTimer'
    BY <2>1 DEF IInv, SettingTypeOK, TasksOK, PendingHasTimer, Set, debouncer, Idle
  <2>5. Busy' = Busy \ {t}
    BY <2>1 DEF Busy, Idle, IInv, SettingTypeOK
  <2>6. IsFiniteSet(Busy') /\ Cardinality(Busy') = Cardinality(Busy) - 1 /\ Cardinality(Busy) \in Nat
    BY <1>1, <2>5, BusyShrinks
  <2>7. Waiting \in Nat /\ loose \in Nat /\ changes \in Nat
    BY DEF Waiting, IInv, SettingTypeOK
  <2>8. Waiting' = Waiting /\ loose' = loose /\ changes' = changes
    BY DEF Waiting, Set, cloud, debouncer
  <2>9. QED
    BY <2>3, <2>4, <2>6, <2>7, <2>8 DEF IInv, Counted
<1>5. QED
  BY <1>3, <1>4

LEMMA NoteStep == \A t \in Setter : IInv /\ Note(t) => IInv'
<1> SUFFICES ASSUME IInv, NEW t \in Setter, Note(t) PROVE IInv'
  OBVIOUS
<1>1. task[t] \in Task /\ task[t].value \in Value /\ task[t].step = "note"
  BY DEF Note, IInv, TasksOK, SettingTypeOK
<1>2. task' = [task EXCEPT ![t].step = "schedule"]
  BY DEF Note, Goes
<1>3. task' \in [Setter -> Task]
  BY <1>1, <1>2 DEF IInv, SettingTypeOK, Task
<1>4. now' \in Nat /\ noted' \in [value : Value, at : Nat] /\ guard' \in BOOLEAN
  BY <1>1 DEF Note, IInv, SettingTypeOK
<1>5. SettingTypeOK'
  BY <1>3, <1>4 DEF Note, IInv, SettingTypeOK, inbound, debouncer, outbox
<1>6. TasksOK' /\ PendingHasTimer'
  BY <1>1, <1>2 DEF IInv, SettingTypeOK, TasksOK, PendingHasTimer, Note, debouncer
<1>7. Busy' = Busy
  BY <1>1, <1>2 DEF Busy, IInv, SettingTypeOK
<1>8. QED
  BY <1>5, <1>6, <1>7 DEF IInv, Counted, Waiting, Note, debouncer
--------------------------------------------------------------------------------
\* The debouncer.
LEMMA ScheduleStep == \A t \in Setter : IInv /\ Schedule(t) => IInv'
<1> SUFFICES ASSUME IInv, NEW t \in Setter, Schedule(t) PROVE IInv'
  OBVIOUS
<1>1. task[t].value \in Value /\ task[t].step = "schedule"
  BY DEF Schedule, IInv, TasksOK
<1>2. task' = [task EXCEPT ![t] = Idle] /\ task' \in [Setter -> Task]
  BY IdleTask DEF Schedule, IInv, SettingTypeOK
<1>3. SettingTypeOK'
  BY <1>1, <1>2 DEF Schedule, IInv, SettingTypeOK, cloud, inbound, outbox, Maybe
<1>4. TasksOK' /\ PendingHasTimer'
  BY <1>2 DEF IInv, SettingTypeOK, TasksOK, PendingHasTimer, Schedule, Idle
<1>5. Counted'
  <2>1. Busy' = Busy \ {t}
    BY <1>2 DEF Busy, Idle, IInv, SettingTypeOK
  <2>2. IsFiniteSet(Busy') /\ Cardinality(Busy') = Cardinality(Busy) - 1 /\ Cardinality(Busy) \in Nat
    BY <1>1, <2>1, BusyShrinks
  <2>3. Waiting \in {0, 1} /\ Waiting' = 1 /\ loose' = loose /\ changes' = changes
    BY DEF Waiting, Schedule, cloud
  <2>4. loose \in Nat /\ changes \in Nat
    BY DEF IInv, SettingTypeOK
  <2>5. QED
    BY <2>2, <2>3, <2>4 DEF Counted, IInv
<1>6. QED
  BY <1>3, <1>4, <1>5 DEF IInv

LEMMA TimerStep == IInv /\ (Fire \/ Flush) => IInv'
<1> SUFFICES ASSUME IInv, Fire \/ Flush PROVE IInv'
  OBVIOUS
<1>1. UNCHANGED <<cloud, inbound, dev, local, outbox, lost>>
  BY DEF Fire, Flush
<1>2. Busy' = Busy /\ Cardinality(Busy) \in Nat
  BY <1>1, BusySize DEF Busy, local
<1>3. loose' \in Nat /\ armed' = FALSE /\ loose' <= loose + Waiting
  BY DEF Fire, Flush, Waiting, IInv, SettingTypeOK
<1>4. /\ loose \in Nat /\ Waiting \in Nat /\ Waiting' = 0
      /\ changes \in Nat /\ changes' = changes
  BY <1>1, <1>3 DEF IInv, SettingTypeOK, Waiting, cloud
<1>5. Counted'
  <2>1. IsFiniteSet(Busy') /\ Cardinality(Busy') = Cardinality(Busy)
    BY <1>2 DEF Counted, IInv
  <2>2. loose + Waiting + Cardinality(Busy) <= changes
    BY DEF Counted, IInv
  <2>3. loose' + 0 + Cardinality(Busy) <= changes
    BY <1>2, <1>3, <1>4, <2>2
  <2>4. QED
    BY <1>4, <2>1, <2>3 DEF Counted
<1>6. loose' \in 0..changes'
  <2>1. loose' + Cardinality(Busy) <= changes
    BY <1>2, <1>3, <1>4, <1>5 DEF Counted
  <2>2. QED
    BY <1>2, <1>3, <1>4, <2>1
<1>7. SettingTypeOK'
  BY <1>1, <1>3, <1>6 DEF Fire, Flush, IInv, SettingTypeOK, cloud, inbound, local, outbox, Maybe
<1>8. TasksOK'
  BY <1>1 DEF IInv, TasksOK, local
<1>9. PendingHasTimer'
  BY DEF Fire, Flush, PendingHasTimer, IInv, SettingTypeOK
<1>10. QED
  BY <1>5, <1>7, <1>8, <1>9 DEF IInv
--------------------------------------------------------------------------------
\* Every step keeps the invariant.
THEOREM Inductive == IInv /\ [SettingNext]_settingVars => IInv'
<1> SUFFICES ASSUME IInv, [SettingNext]_settingVars PROVE IInv'
  OBVIOUS
<1>1. CASE SettingNext
  BY <1>1, CloudStep, SetBeginsStep, SetStep, NoteStep, ScheduleStep, TimerStep, OutboxStep,
     ServerStep DEF SettingNext, SettingStep
<1>2. CASE UNCHANGED settingVars
  <2>1. SettingTypeOK'
    BY <1>2 DEF settingVars, cloud, inbound, local, debouncer, outbox, IInv, SettingTypeOK
  <2>2. UNCHANGED <<task, pending, armed, loose, changes>>
    BY <1>2 DEF settingVars, cloud, local, debouncer
  <2>3. QED
    BY <2>1, <2>2, Beside
<1>3. QED
  BY <1>1, <1>2

\* Types, and never more timers than changes, whatever was cancelled and when.
THEOREM SettingTypes == SettingSpec => []SettingTypeOK
<1>1. IInv => SettingTypeOK
  BY DEF IInv
<1>2. QED
  BY Initial, Inductive, <1>1, PTL DEF SettingSpec

\* A value the debouncer holds has a timer that will take it, for any number of
\* threads that schedule and any number of timers that could not be cancelled.
THEOREM TimerForPending == SettingSpec => []PendingHasTimer
<1>1. IInv => PendingHasTimer
  BY DEF IInv
<1>2. QED
  BY Initial, Inductive, <1>1, PTL DEF SettingSpec
--------------------------------------------------------------------------------
\* Settled.  With two threads, the value published last need not be the one stored last;
\* what follows is about changes that have not overlapped.
Crossing == crossed \/ crossing # {}

\* Threads that are busy at the same time are known to be.
CrossingIsKnown ==
  /\ crossing \subseteq Busy
  /\ \A t, u \in Busy : t # u => t \in crossing

\* A change of the device is on its way to the row.
Publishing ==
  \/ \E t \in Setter : \/ task[t].step \in {"note", "schedule"}
                       \/ task[t].step = "set" /\ task[t].publish
  \/ pending # Nothing \/ taken # Nothing
  \/ entry # Nothing /\ ~entry.applied

\* The newest value on its way is the one noted, which the guard lets through.
IsNoted(v) == noted # Nothing /\ v = noted.value

Scheduling == \E t \in Setter : task[t].step = "schedule"

\* What a thread on its own is about to schedule.
ScheduledIsNoted ==
  \A t \in Setter : task[t].step = "schedule" /\ t \notin crossing => IsNoted(task[t].value)

NewestIsNoted ==
  ~Scheduling =>
    /\ pending # Nothing => IsNoted(pending)
    /\ pending = Nothing /\ taken # Nothing => IsNoted(taken)
    /\ pending = Nothing /\ taken = Nothing /\ entry # Nothing /\ ~entry.applied
         => IsNoted(entry.value) \/ lost

\* No clock is ahead, and snapshots come in the order of their times, one for a time.
Clocks ==
  /\ row.at <= now /\ seen <= now /\ print.at <= seen
  /\ noted # Nothing => noted.at <= now

Ordered ==
  /\ \A i \in 1..Len(inbox) :
       inbox[i].at <= row.at /\ (inbox[i].at = row.at => inbox[i] = row)
  /\ \A i, j \in 1..Len(inbox) :
       i <= j => inbox[i].at <= inbox[j].at /\ (inbox[i].at = inbox[j].at => inbox[i] = inbox[j])

\* A snapshot that the device will accept brings the value of the row, or has brought
\* it; what comes after it has the same value.
SameFrom(i) == \A j \in i..Len(inbox) : inbox[j].value = row.value

Arrives ==
  \E i \in 1..Len(inbox) : Accepted(inbox[i]) /\ inbox[i].at > seen /\ SameFrom(i)

Arrived == SameFrom(1) /\ IF server = Nothing THEN dev = row.value ELSE server = row.value

Converges == lost \/ Publishing \/ Arrives \/ Arrived

\* What holds of changes that have not overlapped.
Alone == Crossing \/ (NewestIsNoted /\ Converges)

SInv == IInv /\ CrossingIsKnown /\ ScheduledIsNoted /\ Alone /\ Clocks /\ Ordered

LEMMA SettledInit == SettingInit => SInv
<1> SUFFICES ASSUME SettingInit PROVE SInv
  OBVIOUS
<1>1. IInv
  BY Initial
<1>2. inbox = <<>> /\ Len(inbox) = 0
  BY DEF SettingInit
<1>3. \A t \in Setter : task[t].step = "idle"
  BY DEF SettingInit, Idle
<1>4. NewestIsNoted /\ ScheduledIsNoted
  BY <1>3 DEF SettingInit, NewestIsNoted, ScheduledIsNoted
<1>9. CrossingIsKnown
  BY <1>3 DEF SettingInit, CrossingIsKnown, Busy
<1>5. Clocks
  <2>1. row.at = 1
    BY DEF SettingInit
  <2>2. QED
    BY <2>1 DEF SettingInit, Clocks
<1>6. Ordered
  BY <1>2 DEF Ordered
<1>7. Converges
  BY <1>2 DEF SettingInit, Converges, Arrived, SameFrom
<1>8. QED
  BY <1>1, <1>4, <1>5, <1>6, <1>7, <1>9 DEF SInv, Alone

\* What the types say of snapshots and times.
LEMMA Snapshots ==
  ASSUME IInv
  PROVE  /\ now \in Nat /\ seen \in Nat /\ Len(inbox) \in Nat
         /\ row \in Snapshot /\ print \in Snapshot /\ row.at \in Nat /\ print.at \in Nat
         /\ noted # Nothing => noted.at \in Nat /\ noted.value \in Value
         /\ \A i \in 1..Len(inbox) : inbox[i] \in Snapshot /\ inbox[i].at \in Nat
         /\ \A v \in Value : v # Nothing
<1>1. row \in Snapshot /\ print \in Snapshot /\ inbox \in Seq(Snapshot)
  BY DEF IInv, SettingTypeOK
<1>2. \A i \in 1..Len(inbox) : inbox[i] \in Snapshot
  BY <1>1
<1>3. \A s \in Snapshot : s.at \in Nat
  BY DEF Snapshot
<1>4. now \in Nat /\ seen \in Nat /\ Len(inbox) \in Nat
  BY <1>1 DEF IInv, SettingTypeOK
<1>5. noted # Nothing => noted.at \in Nat /\ noted.value \in Value
  BY DEF IInv, SettingTypeOK
<1>6. QED
  BY <1>1, <1>2, <1>3, <1>4, <1>5, SettingAssumption

LEMMA EntryType ==
  ASSUME NEW v \in Value
  PROVE  [value |-> v, applied |-> FALSE] # Nothing
<1>1. [value |-> v, applied |-> FALSE] \in [value : Value, applied : BOOLEAN]
  OBVIOUS
<1>2. QED
  BY <1>1, SettingAssumption

LEMMA Appended ==
  ASSUME IInv, NEW s \in Snapshot, inbox' = Append(inbox, s)
  PROVE  /\ Len(inbox') = Len(inbox) + 1
         /\ inbox'[Len(inbox) + 1] = s
         /\ \A i \in 1..Len(inbox) : inbox'[i] = inbox[i]
BY DEF IInv, SettingTypeOK
--------------------------------------------------------------------------------
\* A snapshot appended with a time after all others keeps the order.
LEMMA WriteOrdered ==
  ASSUME IInv, Clocks, Ordered, NEW v \in Value, NEW from \in {"app", "bridge"}, Write(v, from)
  PROVE  /\ Ordered'
         /\ row'.value = v /\ row'.from = from /\ row'.at = now' /\ now' = now + 1
         /\ Len(inbox') = Len(inbox) + 1 /\ inbox'[Len(inbox) + 1] = row'
         /\ \A i \in 1..Len(inbox) : inbox'[i] = inbox[i]
<1>1. row'.value = v /\ row'.from = from /\ row'.at = now' /\ now' = now + 1
  BY DEF Write
<1>2. row' \in Snapshot
  BY WriteType
<1>3. /\ Len(inbox') = Len(inbox) + 1 /\ inbox'[Len(inbox) + 1] = row'
      /\ \A i \in 1..Len(inbox) : inbox'[i] = inbox[i]
  BY <1>2, Appended DEF Write
<1>4. \A i \in 1..Len(inbox) : inbox[i].at < row'.at
  BY <1>1, Snapshots DEF Clocks, Ordered
<1>5. Ordered'
  <2>1. \A i \in 1..Len(inbox') :
          inbox'[i].at <= row'.at /\ (inbox'[i].at = row'.at => inbox'[i] = row')
    BY <1>1, <1>3, <1>4, Snapshots
  <2>2. ASSUME NEW i \in 1..Len(inbox'), NEW j \in 1..Len(inbox'), i <= j
        PROVE  /\ inbox'[i].at <= inbox'[j].at
               /\ inbox'[i].at = inbox'[j].at => inbox'[i] = inbox'[j]
    <3>1. CASE j = Len(inbox) + 1
      BY <1>3, <2>1, <3>1
    <3>2. CASE j \in 1..Len(inbox)
      <4>1. i \in 1..Len(inbox)
        BY <2>2, <3>2
      <4>2. QED
        BY <1>3, <2>2, <3>2, <4>1 DEF Ordered
    <3>3. QED
      BY <1>3, <3>1, <3>2, Snapshots
  <2>3. QED
    BY <2>1, <2>2 DEF Ordered
<1>6. QED
  BY <1>1, <1>3, <1>5

\* What leaves the newest value on its way alone.
LEMMA SameNewest ==
  ASSUME UNCHANGED <<noted, task, pending, taken, entry>>, entry # Nothing => lost' = lost
  PROVE  (NewestIsNoted => NewestIsNoted') /\ Publishing' = Publishing
BY DEF NewestIsNoted, Publishing, Scheduling, IsNoted

\* What leaves the threads alone.
LEMMA SameThreads ==
  ASSUME SInv, UNCHANGED <<noted, task, crossing, crossed>>
  PROVE  CrossingIsKnown' /\ ScheduledIsNoted' /\ (Crossing' <=> Crossing)
BY DEF SInv, CrossingIsKnown, ScheduledIsNoted, Crossing, Busy, IsNoted

\* The cloud's steps.
LEMMA SettledCloud == SInv /\ (AppSets \/ OtherPublished \/ SentAgain) => SInv'
<1> SUFFICES ASSUME SInv, AppSets \/ OtherPublished \/ SentAgain PROVE SInv'
  OBVIOUS
<1>1. IInv /\ IInv'
  BY CloudStep DEF SInv
<1>2. /\ UNCHANGED <<seen, print, server, dev, noted, guard, task, pending, taken, entry>>
      /\ UNCHANGED <<crossing, crossed>>
  BY DEF AppSets, OtherPublished, SentAgain, inbound, local, debouncer, outbox
<1>7. CrossingIsKnown' /\ ScheduledIsNoted' /\ (Crossing' <=> Crossing)
  BY <1>2, SameThreads
<1>3. (NewestIsNoted => NewestIsNoted') /\ Publishing' = Publishing
  <2>1. entry # Nothing => lost' = lost
    BY <1>1 DEF AppSets, OtherPublished, SentAgain, IInv, SettingTypeOK
  <2>2. QED
    BY <1>2, <2>1, SameNewest
<1>4. CASE AppSets
  <2>1. PICK v \in Value : Write(v, "app")
    BY <1>4 DEF AppSets
  <2>2. /\ Ordered'
        /\ row'.value = v /\ row'.from = "app" /\ row'.at = now' /\ now' = now + 1
        /\ Len(inbox') = Len(inbox) + 1 /\ inbox'[Len(inbox) + 1] = row'
    BY <1>1, <2>1, WriteOrdered DEF SInv
  <2>3. Clocks'
    BY <1>1, <1>2, <2>2, Snapshots DEF SInv, Clocks
  <2>4. row'.at > seen' /\ (noted' = Nothing \/ (row'.from = "app" /\ row'.at > noted'.at))
    BY <1>1, <1>2, <2>2, Snapshots DEF SInv, Clocks
  <2>5. Arrives'
    <3> DEFINE n == Len(inbox) + 1
    <3>1. n \in 1..Len(inbox') /\ n..Len(inbox') = {n} /\ inbox'[n] = row'
      BY <1>1, <2>2, Snapshots
    <3>2. \A j \in n..Len(inbox') : inbox'[j].value = row'.value
      BY <3>1
    <3>3. noted' = Nothing \/ (inbox'[n].from = "app" /\ inbox'[n].at > noted'.at)
      BY <2>4, <3>1
    <3>4. inbox'[n].at > seen'
      BY <2>4, <3>1
    <3> HIDE DEF n
    <3>5. QED
      BY <3>1, <3>2, <3>3, <3>4 DEF Arrives, Accepted, SameFrom
  <2>6. QED
    BY <1>1, <1>3, <1>7, <2>2, <2>3, <2>5 DEF SInv, Alone, Converges
<1>5. CASE OtherPublished \/ SentAgain
  <2>1. row.value \in Value
    BY <1>1, Snapshots DEF Snapshot
  <2>2. /\ row'.value = row.value /\ lost' = lost
        /\ Len(inbox') = Len(inbox) + 1 /\ inbox'[Len(inbox) + 1] = row'
        /\ \A i \in 1..Len(inbox) : inbox'[i] = inbox[i]
        /\ Ordered' /\ Clocks'
    <3>1. CASE OtherPublished
      <4>1. Write(row.value, "bridge") /\ lost' = lost
        BY <3>1 DEF OtherPublished
      <4>2. /\ Ordered' /\ row'.value = row.value /\ row'.at = now' /\ now' = now + 1
            /\ Len(inbox') = Len(inbox) + 1 /\ inbox'[Len(inbox) + 1] = row'
            /\ \A i \in 1..Len(inbox) : inbox'[i] = inbox[i]
        BY <1>1, <2>1, <4>1, WriteOrdered DEF SInv
      <4>3. Clocks'
        BY <1>1, <1>2, <4>2, Snapshots DEF SInv, Clocks
      <4>4. QED
        BY <4>1, <4>2, <4>3
    <3>2. CASE SentAgain
      <4>1. inbox' = Append(inbox, row) /\ UNCHANGED <<row, now, lost>>
        BY <3>2 DEF SentAgain
      <4>2. /\ Len(inbox') = Len(inbox) + 1 /\ inbox'[Len(inbox) + 1] = row
            /\ \A i \in 1..Len(inbox) : inbox'[i] = inbox[i]
        BY <1>1, <4>1, Snapshots, Appended
      <4>3. Ordered'
        <5>1. \A i \in 1..Len(inbox') :
                inbox'[i].at <= row.at /\ (inbox'[i].at = row.at => inbox'[i] = row)
          BY <1>1, <4>2, Snapshots DEF SInv, Ordered
        <5>2. ASSUME NEW i \in 1..Len(inbox'), NEW j \in 1..Len(inbox'), i <= j
              PROVE  /\ inbox'[i].at <= inbox'[j].at
                     /\ inbox'[i].at = inbox'[j].at => inbox'[i] = inbox'[j]
          <6>1. CASE j = Len(inbox) + 1
            BY <4>2, <5>1, <6>1
          <6>2. CASE j \in 1..Len(inbox)
            <7>1. i \in 1..Len(inbox)
              BY <5>2, <6>2
            <7>2. QED
              BY <4>2, <5>2, <6>2, <7>1 DEF SInv, Ordered
          <6>3. QED
            BY <1>1, <4>2, <6>1, <6>2, Snapshots
        <5>3. QED
          BY <4>1, <5>1, <5>2 DEF Ordered
      <4>4. Clocks'
        BY <1>2, <4>1 DEF SInv, Clocks
      <4>5. QED
        BY <4>1, <4>2, <4>3, <4>4
    <3>3. QED
      BY <1>5, <3>1, <3>2
  <2>3. ASSUME NEW i \in 1..Len(inbox) + 1, SameFrom(i) PROVE SameFrom(i)'
    <3>1. SUFFICES ASSUME NEW j \in i..Len(inbox') PROVE inbox'[j].value = row'.value
      BY DEF SameFrom
    <3>2. j \in 1..Len(inbox) \/ j = Len(inbox) + 1
      BY <1>1, <2>2, Snapshots
    <3>3. QED
      BY <1>1, <2>2, <2>3, <3>2, Snapshots DEF SameFrom
  <2>4. Arrives => Arrives'
    <3> SUFFICES ASSUME NEW i \in 1..Len(inbox), Accepted(inbox[i]), inbox[i].at > seen, SameFrom(i)
                 PROVE  Arrives'
      BY DEF Arrives
    <3>1. i \in 1..Len(inbox') /\ i \in 1..Len(inbox) + 1 /\ inbox'[i] = inbox[i]
      BY <1>1, <2>2, Snapshots
    <3>2. Accepted(inbox[i])' /\ inbox'[i].at > seen' /\ SameFrom(i)'
      BY <1>2, <2>3, <3>1 DEF Accepted
    <3>3. QED
      BY <3>1, <3>2 DEF Arrives, Accepted, SameFrom
  <2>5. Arrived => Arrived'
    BY <1>1, <1>2, <2>2, <2>3, Snapshots DEF Arrived
  <2>6. QED
    BY <1>1, <1>3, <1>7, <2>2, <2>4, <2>5 DEF SInv, Alone, Converges
<1>6. QED
  BY <1>4, <1>5
--------------------------------------------------------------------------------
\* Steps that leave the row, the snapshots and what the device makes of them alone.
LEMMA SameInbound ==
  ASSUME SInv, UNCHANGED <<row, inbox, now, seen, print, noted>>
  PROVE  Clocks' /\ Ordered'
BY DEF SInv, Clocks, Ordered

LEMMA SameArrival ==
  ASSUME SInv, UNCHANGED <<row, inbox, seen, noted, server, dev>>, guard' => guard
  PROVE  (Arrives => Arrives') /\ (Arrived => Arrived')
<1>1. Arrived => Arrived'
  BY DEF Arrived, SameFrom
<1>2. Arrives => Arrives'
  BY DEF Arrives, Accepted, SameFrom
<1>3. QED
  BY <1>1, <1>2

\* The steps of the threads that change the setting.
LEMMA SettledBegins == \A t \in Setter : SInv /\ SetBegins(t) => SInv'
<1> SUFFICES ASSUME SInv, NEW t \in Setter, SetBegins(t) PROVE SInv'
  OBVIOUS
<1>1. IInv /\ IInv'
  BY SetBeginsStep DEF SInv
<1>2. /\ UNCHANGED <<row, inbox, now, seen, print, server, dev, noted, guard, pending, taken, entry, lost, crossed>>
      /\ task[t].step = "idle" /\ task'[t].step = "set"
      /\ \A u \in Setter : u # t => task'[u] = task[u]
  <2>1. PICK v \in Value : task' = [task EXCEPT ![t] = [step |-> "set", value |-> v, publish |-> dev # v]]
    BY DEF SetBegins
  <2>2. QED
    BY <1>1, <2>1 DEF SetBegins, inbound, debouncer, outbox, IInv, SettingTypeOK
<1>3. Busy' = Busy \cup {t} /\ t \notin Busy /\ Others(t) = Busy
  BY <1>2 DEF Busy, Others
<1>4. /\ crossing' = IF Busy = {} THEN crossing ELSE crossing \cup Busy \cup {t}
      /\ crossing \subseteq crossing'
  BY <1>3 DEF SetBegins
<1>5. CrossingIsKnown'
  <2>1. crossing \subseteq Busy
    BY DEF SInv, CrossingIsKnown
  <2>2. crossing' \subseteq Busy'
    BY <1>3, <1>4, <2>1
  <2>3. \A u, v \in Busy' : u # v => u \in crossing'
    <3>1. CASE Busy = {}
      BY <1>3, <3>1
    <3>2. CASE Busy # {}
      BY <1>3, <1>4, <3>2
    <3>3. QED
      BY <3>1, <3>2
  <2>4. QED
    BY <2>2, <2>3 DEF CrossingIsKnown
<1>6. ScheduledIsNoted'
  <2>1. SUFFICES ASSUME NEW u \in Setter, task'[u].step = "schedule", u \notin crossing'
                 PROVE  IsNoted(task[u].value) /\ task'[u] = task[u]
    BY <1>2 DEF ScheduledIsNoted, IsNoted
  <2>2. u # t
    BY <1>2, <2>1
  <2>3. QED
    BY <1>2, <1>4, <2>1, <2>2 DEF SInv, ScheduledIsNoted
<1>7. NewestIsNoted => NewestIsNoted'
  <2>1. Scheduling => Scheduling'
    BY <1>2 DEF Scheduling
  <2>2. QED
    BY <1>2, <2>1 DEF NewestIsNoted, IsNoted
<1>8. Publishing => Publishing'
  BY <1>2 DEF Publishing
<1>9. Crossing => Crossing'
  BY <1>2, <1>4 DEF Crossing
<1>10. QED
  BY <1>1, <1>2, <1>5, <1>6, <1>7, <1>8, <1>9, SameInbound, SameArrival DEF SInv, Alone, Converges

LEMMA SettledSet == \A t \in Setter : SInv /\ Set(t) => SInv'
<1> SUFFICES ASSUME SInv, NEW t \in Setter, Set(t) PROVE SInv'
  OBVIOUS
<1>1. IInv /\ IInv'
  BY SetStep DEF SInv
<1>2. /\ UNCHANGED <<row, inbox, now, seen, print, server, noted, guard, pending, taken, entry>>
      /\ task[t].step = "set" /\ task[t].publish \in BOOLEAN
      /\ \A u \in Setter : u # t => task'[u] = task[u]
  BY <1>1 DEF Set, Goes, cloud, inbound, debouncer, outbox, IInv, SettingTypeOK, Task
<1>3. CASE task[t].publish
  <2>1. task'[t].step = "note" /\ UNCHANGED <<lost, crossing, crossed>>
    BY <1>1, <1>3 DEF Set, Goes, IInv, SettingTypeOK, Task
  <2>2. Scheduling' = Scheduling /\ Busy' = Busy /\ (Crossing' <=> Crossing)
    BY <1>2, <2>1 DEF Scheduling, Busy, Crossing
  <2>3. CrossingIsKnown' /\ ScheduledIsNoted'
    BY <1>2, <2>1, <2>2 DEF SInv, CrossingIsKnown, ScheduledIsNoted, IsNoted
  <2>4. NewestIsNoted => NewestIsNoted'
    BY <1>2, <2>1, <2>2 DEF NewestIsNoted, IsNoted
  <2>5. Publishing'
    BY <2>1 DEF Publishing
  <2>6. QED
    BY <1>1, <1>2, <2>2, <2>3, <2>4, <2>5, SameInbound DEF SInv, Alone, Converges
<1>4. CASE ~task[t].publish
  <2>1. /\ task'[t].step = "idle" /\ dev' = task[t].value
        /\ lost' = (lost \/ dev # task[t].value)
        /\ crossing' = crossing \ {t} /\ crossed' = (crossed \/ t \in crossing)
    BY <1>1, <1>4 DEF Set, Idle, IInv, SettingTypeOK
  <2>2. Scheduling' = Scheduling /\ Busy' = Busy \ {t}
    BY <1>2, <2>1 DEF Scheduling, Busy
  <2>3. CrossingIsKnown'
    BY <2>1, <2>2 DEF SInv, CrossingIsKnown
  <2>4. ScheduledIsNoted'
    <3>1. SUFFICES ASSUME NEW u \in Setter, task'[u].step = "schedule", u \notin crossing'
                   PROVE  IsNoted(task[u].value) /\ task'[u] = task[u]
      BY <1>2 DEF ScheduledIsNoted, IsNoted
    <3>2. QED
      BY <1>2, <2>1, <3>1 DEF SInv, ScheduledIsNoted
  <2>5. Crossing => Crossing'
    <3>1. CASE crossed \/ t \in crossing
      BY <2>1, <3>1 DEF Crossing
    <3>2. CASE t \notin crossing
      BY <2>1, <3>2 DEF Crossing
    <3>3. QED
      BY <3>1, <3>2
  <2>6. NewestIsNoted => NewestIsNoted'
    <3>1. lost => lost'
      BY <1>1, <2>1 DEF IInv, SettingTypeOK
    <3>2. QED
      BY <1>2, <2>2, <3>1 DEF NewestIsNoted, IsNoted
  <2>7. Publishing => Publishing'
    BY <1>2, <1>4, <2>1 DEF Publishing
  <2>8. lost' \/ (lost' = lost /\ dev' = dev)
    BY <1>1, <2>1 DEF IInv, SettingTypeOK
  <2>9. QED
    BY <1>1, <1>2, <2>3, <2>4, <2>5, <2>6, <2>7, <2>8, SameInbound, SameArrival
    DEF SInv, Alone, Converges
<1>5. QED
  BY <1>3, <1>4

LEMMA SettledNote == \A t \in Setter : SInv /\ Note(t) => SInv'
<1> SUFFICES ASSUME SInv, NEW t \in Setter, Note(t) PROVE SInv'
  OBVIOUS
<1>1. IInv /\ IInv'
  BY NoteStep DEF SInv
<1>2. /\ UNCHANGED <<row, inbox, seen, print, server, dev, pending, taken, entry, lost, crossing, crossed>>
      /\ now' = now + 1 /\ noted'.value = task[t].value /\ noted'.at = now'
      /\ task[t].step = "note" /\ task'[t].step = "schedule" /\ task'[t].value = task[t].value
      /\ \A u \in Setter : u # t => task'[u] = task[u]
  BY <1>1 DEF Note, Goes, inbound, debouncer, outbox, IInv, SettingTypeOK, Task
<1>3. Busy' = Busy /\ t \in Busy /\ Crossing' = Crossing
  BY <1>2 DEF Busy, Crossing
<1>4. noted' # Nothing
  <2>1. task[t].value \in Value
    BY <1>1 DEF Note, IInv, TasksOK
  <2>2. noted' \in [value : Value, at : Nat]
    BY <1>1, <2>1 DEF Note, IInv, SettingTypeOK
  <2>3. QED
    BY <2>2, SettingAssumption
<1>5. CrossingIsKnown'
  BY <1>2, <1>3 DEF SInv, CrossingIsKnown
<1>6. ScheduledIsNoted'
  <2>1. SUFFICES ASSUME NEW u \in Setter, task'[u].step = "schedule", u \notin crossing
                 PROVE  task'[u].value = noted'.value
    BY <1>2, <1>4 DEF ScheduledIsNoted, IsNoted
  <2>2. u = t
    BY <1>2, <1>3, <2>1 DEF SInv, CrossingIsKnown, Busy
  <2>3. QED
    BY <1>2, <2>2
<1>7. NewestIsNoted'
  BY <1>2 DEF NewestIsNoted, Scheduling
<1>8. Publishing'
  BY <1>2 DEF Publishing
<1>9. Clocks' /\ Ordered'
  BY <1>1, <1>2, Snapshots DEF SInv, Clocks, Ordered
<1>10. QED
  BY <1>1, <1>5, <1>6, <1>7, <1>8, <1>9 DEF SInv, Alone, Converges

\* A change made alone makes up for those that have overlapped before it.
LEMMA SettledSchedule == \A t \in Setter : SInv /\ Schedule(t) => SInv'
<1> SUFFICES ASSUME SInv, NEW t \in Setter, Schedule(t) PROVE SInv'
  OBVIOUS
<1>1. IInv /\ IInv'
  BY ScheduleStep DEF SInv
<1>2. /\ UNCHANGED <<row, inbox, now, seen, print, noted>>
      /\ task[t].step = "schedule" /\ task'[t].step = "idle"
      /\ \A u \in Setter : u # t => task'[u] = task[u]
      /\ pending' = task[t].value /\ pending' \in Value
      /\ crossing' = crossing \ {t} /\ crossed' = (t \in crossing)
  BY <1>1 DEF Schedule, Idle, cloud, inbound, IInv, SettingTypeOK, TasksOK
<1>3. Busy' = Busy \ {t}
  BY <1>2 DEF Busy
<1>4. CrossingIsKnown'
  BY <1>2, <1>3 DEF SInv, CrossingIsKnown
<1>5. ScheduledIsNoted'
  <2>1. SUFFICES ASSUME NEW u \in Setter, task'[u].step = "schedule", u \notin crossing'
                 PROVE  IsNoted(task[u].value) /\ task'[u] = task[u]
    BY <1>2 DEF ScheduledIsNoted, IsNoted
  <2>2. QED
    BY <1>2, <2>1 DEF SInv, ScheduledIsNoted
<1>6. Alone'
  <2>1. CASE t \in crossing
    BY <1>2, <2>1 DEF Alone, Crossing
  <2>2. CASE t \notin crossing
    <3>1. pending' # Nothing /\ IsNoted(pending)'
      BY <1>1, <1>2, <2>2, Snapshots DEF SInv, ScheduledIsNoted, IsNoted
    <3>2. NewestIsNoted' /\ Publishing'
      BY <3>1 DEF NewestIsNoted, Publishing
    <3>3. QED
      BY <3>2 DEF Alone, Converges
  <2>3. QED
    BY <2>1, <2>2
<1>7. QED
  BY <1>1, <1>2, <1>4, <1>5, <1>6, SameInbound DEF SInv
--------------------------------------------------------------------------------
\* The timers and the outbox.
LEMMA SettledTimer == SInv /\ (Fire \/ Flush) => SInv'
<1> SUFFICES ASSUME SInv, Fire \/ Flush PROVE SInv'
  OBVIOUS
<1>1. IInv /\ IInv'
  BY TimerStep DEF SInv
<1>2. /\ UNCHANGED <<row, inbox, now, seen, print, server, dev, noted, guard, task, entry, lost>>
      /\ UNCHANGED <<crossing, crossed>>
  BY DEF Fire, Flush, cloud, inbound, local, outbox
<1>3. \/ UNCHANGED <<pending, taken>>
      \/ taken = Nothing /\ taken' = pending /\ pending' = Nothing
  BY DEF Fire, Flush
<1>4. (NewestIsNoted => NewestIsNoted') /\ (Publishing => Publishing')
  <2>1. CASE UNCHANGED <<pending, taken>>
    BY <1>2, <2>1 DEF NewestIsNoted, Publishing, Scheduling, IsNoted
  <2>2. CASE taken = Nothing /\ taken' = pending /\ pending' = Nothing
    <3>1. NewestIsNoted => NewestIsNoted'
      BY <1>2, <2>2 DEF NewestIsNoted, Scheduling, IsNoted
    <3>2. Publishing => Publishing'
      BY <1>2, <2>2 DEF Publishing
    <3>3. QED
      BY <3>1, <3>2
  <2>3. QED
    BY <1>3, <2>1, <2>2
<1>5. QED
  BY <1>1, <1>2, <1>4, SameThreads, SameInbound, SameArrival DEF SInv, Alone, Converges

LEMMA SettledHandOver == SInv /\ HandOver => SInv'
<1> SUFFICES ASSUME SInv, HandOver PROVE SInv'
  OBVIOUS
<1>1. IInv /\ IInv'
  BY OutboxStep DEF SInv
<1>2. /\ UNCHANGED <<row, inbox, now, seen, print, noted, task, pending, crossing, crossed>>
      /\ taken # Nothing /\ taken' = Nothing
  BY DEF HandOver, cloud, inbound, local
<1>3. CASE acked = taken
  <2>1. lost' = TRUE /\ entry' = entry
    BY <1>3 DEF HandOver
  <2>2. NewestIsNoted => NewestIsNoted'
    BY <1>2, <2>1 DEF NewestIsNoted, Scheduling, IsNoted
  <2>3. QED
    BY <1>1, <1>2, <2>1, <2>2, SameThreads, SameInbound DEF SInv, Alone, Converges
<1>4. CASE acked # taken
  <2>1. entry' = [value |-> taken, applied |-> FALSE] /\ lost' = FALSE
    BY <1>4 DEF HandOver
  <2>2. entry' # Nothing /\ entry'.value = taken /\ ~entry'.applied
    <3>1. taken \in Value
      BY <1>1, <1>2 DEF IInv, SettingTypeOK, Maybe
    <3>2. QED
      BY <2>1, <3>1, EntryType
  <2>3. NewestIsNoted => NewestIsNoted'
    BY <1>2, <2>2 DEF NewestIsNoted, Scheduling, IsNoted
  <2>4. Publishing'
    BY <2>2 DEF Publishing
  <2>5. QED
    BY <1>1, <1>2, <2>3, <2>4, SameThreads, SameInbound DEF SInv, Alone, Converges
<1>5. QED
  BY <1>3, <1>4

\* The newest value reaches the row: what is written now the device will accept.
LEMMA SettledDeliver == SInv /\ Deliver => SInv'
<1> SUFFICES ASSUME SInv, Deliver PROVE SInv'
  OBVIOUS
<1>1. IInv /\ IInv'
  BY OutboxStep DEF SInv
<1>2. /\ UNCHANGED <<seen, print, server, dev, noted, guard, task, pending, taken, lost>>
      /\ UNCHANGED <<crossing, crossed>>
      /\ entry # Nothing /\ ~entry.applied /\ Write(entry.value, "bridge")
  BY DEF Deliver, inbound, local, debouncer
<1>3. entry'.applied /\ entry.value \in Value
  BY <1>1, <1>2 DEF Deliver, IInv, SettingTypeOK
<1>4. /\ Ordered'
      /\ row'.value = entry.value /\ row'.at = now' /\ now' = now + 1
      /\ Len(inbox') = Len(inbox) + 1 /\ inbox'[Len(inbox) + 1] = row'
  BY <1>1, <1>2, <1>3, WriteOrdered DEF SInv
<1>5. Clocks'
  BY <1>1, <1>2, <1>4, Snapshots DEF SInv, Clocks
<1>6. /\ NewestIsNoted => NewestIsNoted'
      /\ CrossingIsKnown' /\ ScheduledIsNoted' /\ (Crossing' <=> Crossing)
  BY <1>2, <1>3, SameThreads DEF NewestIsNoted, Scheduling, IsNoted
<1>7. CASE \/ pending # Nothing \/ taken # Nothing
           \/ \E t \in Setter : \/ task[t].step \in {"note", "schedule"}
                                \/ task[t].step = "set" /\ task[t].publish
  <2>1. Publishing'
    BY <1>2, <1>7 DEF Publishing
  <2>2. QED
    BY <1>1, <1>4, <1>5, <1>6, <2>1 DEF SInv, Alone, Converges
<1>8. CASE /\ pending = Nothing /\ taken = Nothing
           /\ ~ \E t \in Setter : \/ task[t].step \in {"note", "schedule"}
                                  \/ task[t].step = "set" /\ task[t].publish
  <2>1. NewestIsNoted => IsNoted(entry.value) \/ lost
    BY <1>2, <1>8 DEF NewestIsNoted, Scheduling
  <2>2. IsNoted(entry.value) => Arrives'
    <3> SUFFICES ASSUME IsNoted(entry.value) PROVE Arrives'
      OBVIOUS
    <3> DEFINE n == Len(inbox) + 1
    <3>1. n \in 1..Len(inbox') /\ n..Len(inbox') = {n} /\ inbox'[n] = row'
      BY <1>1, <1>4, Snapshots
    <3>2. \A j \in n..Len(inbox') : inbox'[j].value = row'.value
      BY <3>1
    <3>3. inbox'[n].value = noted'.value
      BY <1>2, <1>4, <3>1 DEF IsNoted
    <3>4. inbox'[n].at > seen'
      <4>1. row'.at > seen
        BY <1>1, <1>4, Snapshots DEF SInv, Clocks
      <4>2. QED
        BY <1>2, <3>1, <4>1
    <3> HIDE DEF n
    <3>5. QED
      BY <3>1, <3>2, <3>3, <3>4 DEF Arrives, Accepted, SameFrom
  <2>3. QED
    BY <1>1, <1>2, <1>4, <1>5, <1>6, <2>1, <2>2 DEF SInv, Alone, Converges
<1>9. QED
  BY <1>7, <1>8

LEMMA SettledAck == SInv /\ Ack => SInv'
<1> SUFFICES ASSUME SInv, Ack PROVE SInv'
  OBVIOUS
<1>1. IInv /\ IInv'
  BY OutboxStep DEF SInv
<1>2. /\ UNCHANGED <<row, inbox, now, seen, print, server, dev, noted, guard, task, pending, taken, lost>>
      /\ UNCHANGED <<crossing, crossed>>
      /\ entry.applied /\ entry' = Nothing
  BY DEF Ack, cloud, inbound, local, debouncer
<1>3. NewestIsNoted => NewestIsNoted'
  BY <1>2 DEF NewestIsNoted, Scheduling, IsNoted
<1>4. Publishing => Publishing'
  BY <1>2 DEF Publishing
<1>5. QED
  BY <1>1, <1>2, <1>3, <1>4, SameThreads, SameInbound, SameArrival DEF SInv, Alone, Converges
--------------------------------------------------------------------------------
\* The server thread.
LEMMA Taken ==
  ASSUME IInv, inbox # <<>>, inbox' = Tail(inbox)
  PROVE  /\ Len(inbox') + 1 = Len(inbox) /\ 1 \in 1..Len(inbox)
         /\ Head(inbox) = inbox[1]
         /\ \A i \in 1..Len(inbox') : i + 1 \in 1..Len(inbox) /\ inbox'[i] = inbox[i + 1]
<1>1. inbox \in Seq(Snapshot)
  BY DEF IInv, SettingTypeOK
<1>2. QED
  BY <1>1

LEMMA SettledReceive == SInv /\ Receive => SInv'
<1> SUFFICES ASSUME SInv, Receive PROVE SInv'
  OBVIOUS
<1>1. IInv /\ IInv'
  BY ServerStep DEF SInv
<1>2. /\ UNCHANGED <<row, now, dev, noted, guard, task, pending, taken, entry, lost>>
      /\ UNCHANGED <<crossing, crossed>>
      /\ server = Nothing /\ inbox # <<>> /\ inbox' = Tail(inbox)
  BY DEF Receive, local, debouncer, outbox
<1>3. /\ Len(inbox') + 1 = Len(inbox) /\ 1 \in 1..Len(inbox) /\ Head(inbox) = inbox[1]
      /\ \A i \in 1..Len(inbox') : i + 1 \in 1..Len(inbox) /\ inbox'[i] = inbox[i + 1]
  BY <1>1, <1>2, Taken
<1> DEFINE s == inbox[1]
<1>4. s \in Snapshot /\ s.at \in Nat /\ s.value \in Value
  <2>1. s \in Snapshot /\ s.at \in Nat
    BY <1>1, <1>3, Snapshots
  <2>2. QED
    BY <2>1 DEF Snapshot
<1>5. \/ Refused(s) /\ UNCHANGED <<seen, print, server>>
      \/ /\ ~Refused(s)
         /\ seen' = IF s.at > seen THEN s.at ELSE seen
         /\ print' = s
         /\ server' = IF s.value # dev /\ Accepted(s) THEN s.value ELSE Nothing
  BY <1>3 DEF Receive, inbound
<1>6. s.at <= row.at /\ s.at <= now /\ seen <= seen' /\ seen' \in Nat /\ row.at \in Nat
  BY <1>1, <1>3, <1>4, <1>5, Snapshots DEF SInv, Clocks, Ordered
<1> HIDE DEF s
<1>7. /\ (NewestIsNoted => NewestIsNoted') /\ Publishing' = Publishing
      /\ CrossingIsKnown' /\ ScheduledIsNoted' /\ (Crossing' <=> Crossing)
  BY <1>2, SameNewest, SameThreads
<1>8. Clocks'
  BY <1>1, <1>2, <1>4, <1>5, <1>6, Snapshots DEF SInv, Clocks
<1>9. Ordered'
  <2>1. \A i \in 1..Len(inbox') :
          inbox'[i].at <= row.at /\ (inbox'[i].at = row.at => inbox'[i] = row)
    BY <1>3 DEF SInv, Ordered
  <2>2. ASSUME NEW i \in 1..Len(inbox'), NEW j \in 1..Len(inbox'), i <= j
        PROVE  /\ inbox'[i].at <= inbox'[j].at
               /\ inbox'[i].at = inbox'[j].at => inbox'[i] = inbox'[j]
    <3>1. i + 1 \in 1..Len(inbox) /\ j + 1 \in 1..Len(inbox) /\ i + 1 <= j + 1
      BY <1>3, <2>2
    <3>2. QED
      BY <1>3, <3>1 DEF SInv, Ordered
  <2>3. QED
    BY <1>2, <2>1, <2>2 DEF Ordered
<1>10. ASSUME NEW i \in Nat, i >= 1, SameFrom(i + 1) PROVE SameFrom(i)'
  <2>1. SUFFICES ASSUME NEW j \in i..Len(inbox') PROVE inbox'[j].value = row'.value
    BY DEF SameFrom
  <2>2. j \in 1..Len(inbox') /\ j + 1 \in (i + 1)..Len(inbox)
    BY <1>1, <1>3, <1>10, Snapshots
  <2>3. QED
    BY <1>2, <1>3, <1>10, <2>2 DEF SameFrom
<1>11. SameFrom(1) => SameFrom(1)'
  <2>1. SameFrom(1) => SameFrom(2)
    BY DEF SameFrom
  <2>2. QED
    BY <1>10, <2>1
<1>12. Arrived => Arrived'
  <2> SUFFICES ASSUME Arrived PROVE Arrived'
    OBVIOUS
  <2>1. SameFrom(1) /\ dev = row.value /\ s.value = dev
    BY <1>2, <1>3 DEF Arrived, SameFrom, s
  <2>2. server' = Nothing
    BY <1>2, <1>5, <2>1
  <2>3. QED
    BY <1>2, <1>11, <2>1, <2>2 DEF Arrived
<1>13. ASSUME Accepted(s), ~Refused(s), SameFrom(1) PROVE Arrived'
  <2>1. s.value = row.value
    BY <1>3, <1>13 DEF SameFrom, s
  <2>2. IF server' = Nothing THEN dev = row.value ELSE server' = row.value
    BY <1>1, <1>4, <1>5, <1>13, <2>1, Snapshots
  <2>3. QED
    BY <1>2, <1>11, <1>13, <2>2 DEF Arrived
<1>14. Arrives => Arrives' \/ Arrived'
  <2> SUFFICES ASSUME NEW i \in 1..Len(inbox), Accepted(inbox[i]), inbox[i].at > seen, SameFrom(i)
               PROVE  Arrives' \/ Arrived'
    BY DEF Arrives
  <2>1. CASE inbox[i].at = s.at
    <3>1. inbox[i] = s
      BY <1>1, <1>3, <2>1, Snapshots DEF SInv, Ordered, s
    <3>2. ~Refused(s)
      BY <1>1, <1>4, <3>1, Snapshots DEF SInv, Clocks, Refused
    <3>3. SameFrom(1)
      <4> SUFFICES ASSUME NEW j \in 1..Len(inbox) PROVE inbox[j].value = row.value
        BY DEF SameFrom
      <4>1. CASE j >= i
        BY <4>1 DEF SameFrom
      <4>2. CASE j < i
        <5>1. s.at <= inbox[j].at /\ inbox[j].at <= inbox[i].at
          BY <1>1, <1>3, <4>2, Snapshots DEF SInv, Ordered, s
        <5>2. inbox[j] = inbox[i]
          BY <1>1, <1>4, <2>1, <4>2, <5>1, Snapshots DEF SInv, Ordered
        <5>3. QED
          BY <1>1, <5>2, Snapshots DEF SameFrom
      <4>3. QED
        BY <4>1, <4>2
    <3>4. QED
      BY <1>13, <3>1, <3>2, <3>3
  <2>2. CASE inbox[i].at # s.at
    <3>1. i # 1 /\ s.at < inbox[i].at
      BY <1>1, <1>3, <1>4, <2>2, Snapshots DEF SInv, Ordered, s
    <3> DEFINE k == i - 1
    <3>2. k \in Nat /\ k >= 1 /\ k + 1 = i /\ k \in 1..Len(inbox') /\ inbox'[k] = inbox[i]
      BY <1>1, <1>3, <3>1, Snapshots
    <3> HIDE DEF k
    <3>3. SameFrom(k)'
      BY <1>10, <3>2
    <3>4. Accepted(inbox[k])'
      BY <1>2, <3>2 DEF Accepted
    <3>5. inbox'[k].at > seen'
      BY <1>1, <1>5, <3>1, <3>2, Snapshots
    <3>6. QED
      BY <3>2, <3>3, <3>4, <3>5 DEF Arrives, Accepted, SameFrom
  <2>3. QED
    BY <2>1, <2>2
<1>15. QED
  BY <1>1, <1>2, <1>7, <1>8, <1>9, <1>12, <1>14 DEF SInv, Alone, Converges

LEMMA SettledStore == SInv /\ (Store \/ GuardEnds) => SInv'
<1> SUFFICES ASSUME SInv, Store \/ GuardEnds PROVE SInv'
  OBVIOUS
<1>1. IInv /\ IInv'
  BY ServerStep DEF SInv
<1>2. /\ UNCHANGED <<row, inbox, now, seen, print, noted, task, pending, taken, entry, lost>>
      /\ UNCHANGED <<crossing, crossed>>
  BY DEF Store, GuardEnds, cloud, inbound, local, debouncer, outbox
<1>3. (NewestIsNoted => NewestIsNoted') /\ Publishing' = Publishing
  BY <1>2, SameNewest
<1>4. (Arrives => Arrives') /\ (Arrived => Arrived')
  <2>1. CASE Store
    <3>1. Arrived => Arrived'
      BY <1>2, <2>1 DEF Store, Arrived, SameFrom
    <3>2. Arrives => Arrives'
      BY <1>2, <2>1 DEF Store, local, Arrives, Accepted, SameFrom
    <3>3. QED
      BY <3>1, <3>2
  <2>2. CASE GuardEnds
    <3>1. server' = server /\ dev' = dev /\ guard /\ guard' = FALSE
      BY <2>2 DEF GuardEnds, inbound
    <3>2. QED
      BY <1>2, <3>1, SameArrival
  <2>3. QED
    BY <2>1, <2>2
<1>5. QED
  BY <1>1, <1>2, <1>3, <1>4, SameThreads, SameInbound DEF SInv, Alone, Converges
--------------------------------------------------------------------------------
THEOREM SettledInductive == SInv /\ [SettingNext]_settingVars => SInv'
<1> SUFFICES ASSUME SInv, [SettingNext]_settingVars PROVE SInv'
  OBVIOUS
<1>1. CASE SettingNext
  BY <1>1, SettledCloud, SettledBegins, SettledSet, SettledNote, SettledSchedule, SettledTimer,
     SettledHandOver, SettledDeliver, SettledAck, SettledReceive, SettledStore
     DEF SettingNext, SettingStep
<1>2. CASE UNCHANGED settingVars
  <2>1. /\ UNCHANGED <<row, inbox, now, seen, print, server, dev, noted, guard, task, pending, taken, entry, lost>>
        /\ UNCHANGED <<crossing, crossed>>
    BY <1>2 DEF settingVars, cloud, inbound, local, debouncer, outbox
  <2>2. (NewestIsNoted => NewestIsNoted') /\ Publishing' = Publishing
    BY <2>1, SameNewest
  <2>3. IInv'
    BY <1>2, Inductive DEF SInv
  <2>4. QED
    BY <2>1, <2>2, <2>3, SameThreads, SameInbound, SameArrival DEF SInv, Alone, Converges
<1>3. QED
  BY <1>1, <1>2

\* Once everything is quiet the device and the row agree, or a value was dropped, or the
\* last change published overlapped another: whatever the app sets, whatever is sent again,
\* however late timers, deliveries and acknowledgements are, for any number of threads that
\* change the setting and any number of changes.
THEOREM RowAndDeviceSettle == SettingSpec => []Settled
<1>1. SInv => Settled
  <2> SUFFICES ASSUME SInv, Quiet, ~crossed PROVE dev = row.value \/ lost
    BY DEF Settled
  <2>1. ~Crossing
    BY DEF Quiet, SInv, CrossingIsKnown, Crossing, Busy
  <2>2. ~Publishing
    BY DEF Quiet, Publishing
  <2>3. ~Arrives
    BY DEF Quiet, Arrives
  <2>4. QED
    BY <2>1, <2>2, <2>3 DEF SInv, Alone, Converges, Arrived, Quiet
<1>2. QED
  BY <1>1, SettledInit, SettledInductive, PTL DEF SettingSpec
================================================================================
