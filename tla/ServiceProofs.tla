------------------------------ MODULE ServiceProofs -----------------------------
(***************************************************************************)
(* Proofs about the services of MC_Services: the bridge session,           *)
(* device.json, the controllers and the dim window, for every value of     *)
(* their constants, and what that says of the six services together.       *)
(* Downloads and firmware have proof modules of their own.                 *)
(***************************************************************************)
EXTENDS MC_Services, FileDownloadProofs, FirmwareProofs, TLAPS

--------------------------------------------------------------------------------
\* The session with the bridge process.

\* The engine lacks an outbox only before the first session, or while a manager
\* holds the lock to build one.
EngineBare == engine = 0 => (sessions = 0 \/ ~LockFree)

\* What is inductive.
BridgeInv ==
  /\ BridgeTypeOK
  /\ EngineOfClient
  /\ EngineBare
  /\ LiveBridgeHasOutbox
  /\ ConnectedIsServed

LEMMA BridgeInvInit == BridgeInit => BridgeInv
<1> SUFFICES ASSUME BridgeInit PROVE BridgeInv
  OBVIOUS
<1> USE MaxSessionAssumption DEF BridgeInit, Manager, Session, Label
<1>1. pc["boot"] = "ensure" /\ pc["loop"] = "idle"
  OBVIOUS
<1>2. sessions + Creating("boot") + Creating("loop") <= MaxSession
  BY <1>1 DEF Creating, Finished
<1>3. \A n \in Session : handle # n /\ n > sessions /\ launch[n] = "none"
  OBVIOUS
<1>4. BridgeTypeOK
  BY <1>2, <1>3 DEF BridgeTypeOK
<1>5. QED
  BY <1>4 DEF BridgeInv, EngineOfClient, EngineBare, LiveBridgeHasOutbox,
              ConnectedIsServed, Alive

LEMMA BridgeTypeStep == BridgeTypeOK /\ [BridgeNext]_bvars => BridgeTypeOK'
<1> SUFFICES ASSUME BridgeTypeOK, [BridgeNext]_bvars
             PROVE  BridgeTypeOK'
  OBVIOUS
<1> USE MaxSessionAssumption
    DEF globals, workers, Manager, Session, Label, GotoLabel, BridgeTypeOK, Creating, Finished,
        Alive
<1>1. CASE Restart
  BY <1>1 DEF Restart, Room
<1>2. CASE StopTakes
  BY <1>2 DEF StopTakes
<1>3. CASE StopTerminates
  BY <1>3 DEF StopTerminates
<1>14. CASE StopClearsClient \/ StopClearsActivity \/ StopClearsConnected
  BY <1>14 DEF StopClearsClient, StopClearsActivity, StopClearsConnected
<1>4. ASSUME NEW m \in Manager, Ensure(m)
      PROVE  BridgeTypeOK'
  BY <1>4 DEF Ensure
<1>5. ASSUME NEW m \in Manager, Wire(m)
      PROVE  BridgeTypeOK'
  <2>1. sessions + 1 \in Session /\ pc'[m] = Finished(m)
    BY <1>5 DEF Wire
  <2>2. sessions' + Creating("boot")' + Creating("loop")' <= MaxSession
    BY <1>5, <2>1 DEF Wire
  <2>3. \A n \in Session :
          /\ launch'[n] \in {"seed", "record"} => proc'[n] # "none"
          /\ handle' = n => (launch'[n] = "done" /\ proc'[n] # "none")
          /\ n > sessions' <=> launch'[n] = "none"
    BY <1>5, <2>1 DEF Wire
  <2>4. /\ pc' \in [Manager -> Label]
        /\ launch' \in [Session -> {"none", "popen", "seed", "record", "done"}]
        /\ server' \in [Session -> {"none", "unlink", "bind", "listen", "serve", "done"}]
    BY <1>5, <2>1 DEF Wire
  <2>5. sessions' \in Nat /\ {taken', client', engine', handle', path'} \subseteq Session \cup {0}
    BY <1>5, <2>1 DEF Wire
  <2>6. UNCHANGED <<activity, proc, peer>> /\ connected' \in BOOLEAN
    BY <1>5 DEF Wire
  <2>7. QED
    BY <2>2, <2>3, <2>4, <2>5, <2>6
<1>6. ASSUME NEW n \in Session, NEW ok \in BOOLEAN, Popen(n, ok)
      PROVE  BridgeTypeOK'
  BY <1>6 DEF Popen
<1>7. ASSUME NEW n \in Session, Seed(n)
      PROVE  BridgeTypeOK'
  BY <1>7 DEF Seed
<1>8. ASSUME NEW n \in Session, Record(n)
      PROVE  BridgeTypeOK'
  BY <1>8 DEF Record
<1>9. ASSUME NEW n \in Session, Serves(n) \/ Frame(n) \/ Connects(n)
      PROVE  BridgeTypeOK'
  <2>1. CASE Unlink(n) \/ Bind(n)
    BY <2>1 DEF Unlink, Bind
  <2>2. CASE Eof(n) \/ Frame(n)
    BY <2>2 DEF Eof, Frame
  <2>3. CASE Connects(n)
    BY <2>3 DEF Connects
  <2>4. QED
    BY <1>9, <2>1, <2>2, <2>3 DEF Serves
<1>10. ASSUME NEW n \in Session, Exits(n)
       PROVE  BridgeTypeOK'
  BY <1>10 DEF Exits
<1>11. CASE Silence
  BY <1>11 DEF Silence
<1>12. CASE UNCHANGED bvars
  BY <1>12 DEF bvars
<1>13. QED
  BY <1>1, <1>2, <1>3, <1>4, <1>5, <1>6, <1>7, <1>8, <1>9, <1>10, <1>11, <1>12,
     <1>14 DEF BridgeNext, Stops, Manages, Launches

\* A manager that takes the lock clears the engine, and the next step of the
\* lock's holder gives it an outbox again.
LEMMA EngineStep ==
  BridgeTypeOK /\ EngineOfClient /\ EngineBare /\ LiveBridgeHasOutbox /\ [BridgeNext]_bvars
    => EngineOfClient' /\ EngineBare' /\ LiveBridgeHasOutbox'
<1> SUFFICES ASSUME BridgeTypeOK, EngineOfClient, EngineBare, LiveBridgeHasOutbox,
                    [BridgeNext]_bvars
             PROVE  EngineOfClient' /\ EngineBare' /\ LiveBridgeHasOutbox'
  OBVIOUS
<1> USE DEF globals, workers, EngineOfClient, EngineBare, LiveBridgeHasOutbox, Alive
<1>1. ASSUME Restart \/ Stops
      PROVE  EngineOfClient' /\ EngineBare' /\ LiveBridgeHasOutbox'
  <2>1. /\ pc["loop"] # "wire" /\ LockFree' = LockFree
        /\ engine' = engine /\ sessions' = sessions
        /\ client' \in {client, 0} /\ handle' \in {handle, 0}
    BY <1>1
    DEF Restart, Stops, StopTakes, StopTerminates, StopClearsClient, StopClearsActivity,
        StopClearsConnected,
        GotoLabel, BridgeTypeOK, LockFree, Manager
  <2>2. handle' # 0 => \A n \in Session : proc'[n] = "alive" => proc[n] = "alive"
    BY <1>1
    DEF Restart, Stops, StopTakes, StopTerminates, StopClearsClient, StopClearsActivity,
        StopClearsConnected,
        BridgeTypeOK
  <2>3. Alive(handle)' => Alive(handle)
    BY <2>1, <2>2 DEF BridgeTypeOK
  <2>4. QED
    BY <2>1, <2>3
<1>2. ASSUME NEW m \in Manager, Ensure(m)
      PROVE  EngineOfClient' /\ EngineBare' /\ LiveBridgeHasOutbox'
  <2>1. CASE Alive(handle)
    <3>1. engine' = engine /\ LockFree' /\ LockFree
      BY <1>2, <2>1 DEF Ensure, LockFree, BridgeTypeOK, Finished
    <3>2. QED
      BY <1>2, <3>1 DEF Ensure
  <2>2. CASE ~Alive(handle)
    <3>1. ~LockFree' /\ handle' = handle /\ proc' = proc
      BY <1>2, <2>2 DEF Ensure, LockFree, BridgeTypeOK
    <3>2. QED
      BY <2>2, <3>1
  <2>3. QED
    BY <2>1, <2>2
<1>3. ASSUME NEW m \in Manager, Wire(m)
      PROVE  EngineOfClient' /\ EngineBare' /\ LiveBridgeHasOutbox'
  <2>1. engine' = client' /\ engine' # 0
    BY <1>3 DEF Wire, BridgeTypeOK
  <2>2. QED
    BY <2>1
<1>4. ASSUME NEW n \in Session, Launches(n)
      PROVE  EngineOfClient' /\ EngineBare' /\ LiveBridgeHasOutbox'
  <2>1. UNCHANGED <<pc, client, engine, sessions>> /\ LockFree' = LockFree
    BY <1>4 DEF Launches, Popen, Seed, Record, LockFree
  <2>2. ASSUME Alive(handle)'
        PROVE  engine # 0
    <3>1. CASE Record(n)
      <4>1. sessions # 0
        BY <3>1, MaxSessionAssumption DEF Record, BridgeTypeOK, Session
      <4>2. QED
        BY <3>1, <4>1 DEF Record
    <3>2. CASE ~Record(n)
      <4>1. handle' = handle /\ (launch[n] \in {"popen", "seed"})
        BY <1>4, <3>2 DEF Launches, Popen, Seed
      <4>2. handle # n /\ handle \in Session
        BY <2>2, <4>1 DEF BridgeTypeOK
      <4>3. proc'[handle] = proc[handle]
        BY <1>4, <3>2, <4>2 DEF Launches, Popen, Seed, BridgeTypeOK
      <4>4. QED
        BY <2>2, <4>1, <4>2, <4>3
    <3>3. QED
      BY <3>1, <3>2
  <2>3. QED
    BY <2>1, <2>2
<1>5. ASSUME \/ \E n \in Session : Serves(n) \/ Frame(n) \/ Connects(n) \/ Exits(n)
             \/ Silence
             \/ UNCHANGED bvars
      PROVE  EngineOfClient' /\ EngineBare' /\ LiveBridgeHasOutbox'
  <2>1. /\ UNCHANGED <<pc, client, engine, handle, sessions>>
        /\ LockFree' = LockFree
        /\ Alive(handle)' => Alive(handle)
    BY <1>5 DEF Serves, Unlink, Bind, Eof, Frame, Connects, Exits, Silence, bvars,
                LockFree, BridgeTypeOK
  <2>2. QED
    BY <2>1
<1>6. QED
  BY <1>1, <1>2, <1>3, <1>4, <1>5 DEF BridgeNext, Manages

\* A server thread that stops serving takes the flag down.
LEMMA ConnectedStep ==
  BridgeTypeOK /\ ConnectedIsServed /\ [BridgeNext]_bvars => ConnectedIsServed'
<1> SUFFICES ASSUME BridgeTypeOK, ConnectedIsServed, [BridgeNext]_bvars, connected'
             PROVE  \E n \in Session : server'[n] = "serve"
  BY DEF ConnectedIsServed
<1>1. ASSUME NEW n \in Session, Frame(n)
      PROVE  server'[n] = "serve"
  BY <1>1 DEF Frame, workers
<1>2. ASSUME ~\E n \in Session : Frame(n)
      PROVE  connected /\ \A n \in Session : server[n] = "serve" => server'[n] = "serve"
  <2>1. ASSUME NEW n \in Session, Serves(n) \/ Connects(n)
        PROVE  connected /\ \A k \in Session : server[k] = "serve" => server'[k] = "serve"
    BY <2>1 DEF Serves, Unlink, Bind, Eof, Connects, BridgeTypeOK, globals
  <2>2. ASSUME ~\E n \in Session : Serves(n) \/ Connects(n)
        PROVE  connected' = FALSE \/ (connected' = connected /\ server' = server)
    BY <1>2, <2>2
       DEF BridgeNext, Restart, Stops, StopTakes, StopTerminates, StopClearsClient, StopClearsActivity,
           StopClearsConnected, Manages, Ensure, Wire, Launches, Popen, Seed, Record, Exits, Silence, bvars, globals, workers
  <2>3. QED
    BY <2>1, <2>2
<1>3. QED
  BY <1>1, <1>2 DEF ConnectedIsServed

LEMMA BridgeInvStep == BridgeInv /\ [BridgeNext]_bvars => BridgeInv'
BY BridgeTypeStep, EngineStep, ConnectedStep DEF BridgeInv

\* The invariant the theorems about bridge sessions follow from holds in every state.
THEOREM BridgeInvHolds == BridgeSpec => []BridgeInv
BY BridgeInvInit, BridgeInvStep, PTL DEF BridgeSpec

\* The types of the variables, and how sessions, threads and processes match.
THEOREM BridgeTypeCorrect == BridgeSpec => []BridgeTypeOK
<1>1. BridgeInv => BridgeTypeOK
  BY DEF BridgeInv
<1>2. QED
  BY <1>1, BridgeInvHolds, PTL

\* Patches go to the outbox of the session that is active, however restarts, launches
\* and the first start overlap, and none is dropped for want of an outbox while a live
\* bridge is recorded.
THEOREM PatchesKept == BridgeSpec => []PatchesHaveOutbox
<1>1. BridgeInv => PatchesHaveOutbox
  BY DEF BridgeInv, PatchesHaveOutbox
<1>2. QED
  BY <1>1, BridgeInvHolds, PTL

\* The connected flag is never left up by a session that has ended.
THEOREM ConnectedFlagIsTrue == BridgeSpec => []ConnectedIsServed
<1>1. BridgeInv => ConnectedIsServed
  BY DEF BridgeInv
<1>2. QED
  BY <1>1, BridgeInvHolds, PTL

--------------------------------------------------------------------------------
\* device.json.

\* A thread that has read the identity carries the serial number of the boot partition.
CopyHasSerial ==
  bootSerial => \A a \in Author :
    author[a].pc \in {"open", "dump", "replace"} => author[a].copy.serial

\* As long as no two changes have overlapped, one thread at most is at work.
OneAuthor ==
  ~spoiled => \A a, b \in Author : ~FileAtRest(a) /\ ~FileAtRest(b) => a = b

\* Between the truncation and the write the settings are in the copy; at any other time
\* they are in the file, and a copy is the file with one field changed, or with none.
SettingsSomewhere ==
  ~spoiled =>
    /\ \/ Readable(disk) /\ disk.settings = meant
       \/ \E a \in Author : author[a].pc = "dump"
    /\ \A a \in Author :
         /\ author[a].pc = "dump" => disk = Truncated
         /\ author[a].pc = "replace" => author[a].field = "none"
         /\ author[a].pc \in {"identify", "open", "dump", "replace"}
              => author[a].copy.settings = Changed(a)

\* What is inductive.
JsonInv == JsonTypeOK /\ SerialKept /\ CopyHasSerial /\ OneAuthor /\ SettingsSomewhere

LEMMA JsonInvInit == JsonInit => JsonInv
<1> SUFFICES ASSUME JsonInit PROVE JsonInv
  OBVIOUS
<1> USE JsonAssumption
    DEF JsonInit, AtSetup, Document, Documents, NoChange, Empty, Unread, Setting, Unset
<1>1. JsonTypeOK
  <2>1. disk \in Documents({"json", "truncated", "garbled"})
    OBVIOUS
  <2>2. NoChange \in Change
    BY DEF Change
  <2>3. author \in [Author -> {NoChange}]
    OBVIOUS
  <2>4. meant \in [Field -> Setting] /\ jevents \in 0..MaxJsonEvent
    OBVIOUS
  <2>5. QED
    BY ONLY <2>1, <2>2, <2>3, <2>4, JsonInit DEF JsonTypeOK, JsonInit
<1>2. SerialKept /\ CopyHasSerial /\ OneAuthor
  BY DEF SerialKept, CopyHasSerial, OneAuthor, FileAtRest
<1>3. SettingsSomewhere
  BY DEF SettingsSomewhere, Readable
<1>4. QED
  BY <1>1, <1>2, <1>3 DEF JsonInv

\* What a document of the file looks like after each step.
LEMMA DocumentsTyped ==
  /\ Truncated \in Documents({"json", "truncated", "garbled"})
  /\ Garbled \in Documents({"json", "truncated", "garbled"})
  /\ Empty \in Documents({"json"})
  /\ \A d \in Documents({"json", "truncated", "garbled"}) :
       /\ Parsed(d) \in Documents({"json"})
       /\ Readable(d) => Parsed(d) = d
       /\ \A s \in BOOLEAN : [d EXCEPT !.serial = s] \in Documents({"json", "truncated", "garbled"})
  /\ NoChange.pc = "none" /\ NoChange.copy = Empty /\ NoChange.value \in Setting
BY JsonAssumption
   DEF Truncated, Garbled, Empty, Documents, Document, Unread, Unset, Setting, Parsed, Readable,
       NoChange

\* A change at its steps.
LEMMA ChangesTyped ==
  /\ NoChange \in Change
  /\ \A c \in Change :
       /\ c.field \in Field \cup {"none"} /\ c.value \in Setting /\ c.copy \in Documents({"json"})
       /\ c.copy \in Documents({"json", "truncated", "garbled"})
       /\ \A step \in {"open", "dump", "dump to the old file"} : [c EXCEPT !.pc = step] \in Change
       /\ \A step \in {"identify", "open"}, copy \in Documents({"json"}) :
            [c EXCEPT !.pc = step, !.copy = copy] \in Change
  /\ \A step \in {"open", "replace"}, copy \in Documents({"json"}) :
       [NoChange EXCEPT !.pc = step, !.copy = copy] \in Change
  /\ \A f \in Field, v \in Setting :
       [NoChange EXCEPT !.pc = "load", !.field = f, !.value = v] \in Change
<1>1. NoChange \in Change
  BY JsonAssumption
     DEF NoChange, Change, Empty, Document, Documents, Unread, Unset, Setting
<1>2. ASSUME NEW c \in Change PROVE c.copy \in Documents({"json", "truncated", "garbled"})
  BY DEF Change, Documents
<1>3. QED
  BY <1>1, <1>2 DEF Change

\* What the threads that rewrite the whole file take for it.
LEMMA RewritesTyped ==
  /\ AtSetup \in Documents({"json"}) /\ AtSetup.serial
  /\ \A d \in Documents({"json", "truncated", "garbled"}) :
       Readable(d) => /\ d \in Documents({"json"})
                      /\ bootSerial \in BOOLEAN =>
                           /\ [d EXCEPT !.serial = Serial(d)] \in Documents({"json"})
                           /\ [d EXCEPT !.serial = Serial(d)].settings = d.settings
                           /\ bootSerial => [d EXCEPT !.serial = Serial(d)].serial
BY JsonAssumption DEF AtSetup, Documents, Document, Unset, Setting, Readable, Serial

LEMMA JsonTypeStep == JsonTypeOK /\ [JsonNext]_jsonVars => JsonTypeOK'
<1> SUFFICES ASSUME JsonTypeOK, [JsonNext]_jsonVars PROVE JsonTypeOK'
  OBVIOUS
<1> DEFINE Kinds == {"json", "truncated", "garbled"}
<1> USE DEF JsonTypeOK
<1>1. CASE UNCHANGED jsonVars
  BY <1>1 DEF jsonVars
<1>2. JsonEvent => jevents' \in Setting /\ jevents' \in 0..MaxJsonEvent
  BY JsonAssumption DEF JsonEvent, Setting
<1>3. CASE PowerCut
  <2>1. author' \in [Author -> Change]
    BY <1>3, ChangesTyped DEF PowerCut
  <2>2. disk' \in Documents(Kinds)
    <3>1. CASE Readable(disk)
      <4>1. Serial(disk) \in BOOLEAN
        BY DEF Serial, Documents
      <4>2. disk' = [disk EXCEPT !.serial = Serial(disk)]
        BY <1>3, <3>1 DEF PowerCut
      <4>3. QED
        BY <4>1, <4>2, DocumentsTyped
    <3>2. CASE ~Readable(disk)
      BY <1>3, <3>2 DEF PowerCut
    <3>3. QED
      BY <3>1, <3>2
  <2>3. spoiled' \in BOOLEAN
    BY <1>3 DEF PowerCut
  <2>4. QED
    BY <1>2, <1>3, <2>1, <2>2, <2>3 DEF PowerCut
<1>4. ASSUME NEW a \in Author, NEW f \in Field, SetField(a, f) PROVE JsonTypeOK'
  <2>1. author' \in [Author -> Change]
    BY <1>2, <1>4, ChangesTyped DEF SetField
  <2>2. spoiled' \in BOOLEAN
    BY <1>4 DEF SetField, Overlap
  <2>3. QED
    BY <1>2, <1>4, <2>1, <2>2 DEF SetField
<1>5. ASSUME NEW a \in Author, Load(a) PROVE JsonTypeOK'
  <2> DEFINE copy == [Parsed(disk) EXCEPT !.settings[author[a].field] = author[a].value]
  <2>1. Parsed(disk) \in Documents({"json"})
    BY DocumentsTyped
  <2>2. author[a] \in Change /\ author[a].value \in Setting \cup {Unset}
    BY ChangesTyped
  <2>3. copy \in Documents({"json"})
    BY <2>1, <2>2 DEF Documents
  <2>4. author' = [author EXCEPT ![a] = [author[a] EXCEPT !.pc = "identify", !.copy = copy]]
    BY <1>5 DEF Load
  <2> HIDE DEF copy
  <2>5. author' \in [Author -> Change]
    BY <2>2, <2>3, <2>4, ChangesTyped
  <2>6. QED
    BY <1>5, <2>5 DEF Load
<1>6. ASSUME NEW a \in Author, Identify(a) PROVE JsonTypeOK'
  <2> DEFINE copy == [author[a].copy EXCEPT !.serial = Serial(Parsed(disk))]
  <2>1. Serial(Parsed(disk)) \in BOOLEAN
    BY DocumentsTyped DEF Serial, Documents
  <2>2. author[a] \in Change /\ author[a].copy \in Documents({"json"})
    BY ChangesTyped
  <2>3. copy \in Documents({"json"})
    BY <2>1, <2>2 DEF Documents
  <2>4. author' = [author EXCEPT ![a] = [author[a] EXCEPT !.pc = "open", !.copy = copy]]
    BY <1>6, <2>2 DEF Identify, Change
  <2> HIDE DEF copy
  <2>5. author' \in [Author -> Change]
    BY <2>2, <2>3, <2>4, ChangesTyped
  <2>6. QED
    BY <1>6, <2>5 DEF Identify
<1>7. ASSUME NEW a \in Author, Truncate(a) PROVE JsonTypeOK'
  BY <1>7, DocumentsTyped, ChangesTyped DEF Truncate
<1>8. ASSUME NEW a \in Author, Dump(a) PROVE JsonTypeOK'
  <2>1. disk' \in Documents(Kinds)
    BY <1>8, DocumentsTyped, ChangesTyped DEF Dump
  <2>2. meant' \in [Field -> Setting]
    BY <1>8, ChangesTyped DEF Dump, Changed
  <2>3. QED
    BY <1>8, <2>1, <2>2, ChangesTyped DEF Dump
<1>9. ASSUME NEW a \in Author, DumpToOldFile(a) PROVE JsonTypeOK'
  BY <1>9, ChangesTyped DEF DumpToOldFile
<1>10. ASSUME NEW a \in Author, RepairIdentity(a) PROVE JsonTypeOK'
  <2>1. author' \in [Author -> Change]
    BY <1>10, RewritesTyped, ChangesTyped DEF RepairIdentity
  <2>2. spoiled' \in BOOLEAN
    BY <1>10 DEF RepairIdentity, Overlap
  <2>3. QED
    BY <1>2, <1>10, <2>1, <2>2 DEF RepairIdentity
<1>11. ASSUME NEW a \in Author, Migrate(a) PROVE JsonTypeOK'
  <2>1. author' \in [Author -> Change]
    BY <1>11, RewritesTyped, ChangesTyped DEF Migrate
  <2>2. spoiled' \in BOOLEAN
    BY <1>11 DEF Migrate, Overlap
  <2>3. QED
    BY <1>2, <1>11, <2>1, <2>2 DEF Migrate
<1>12. ASSUME NEW a \in Author, RepairScript(a) PROVE JsonTypeOK'
  BY <1>2, <1>12, RewritesTyped, ChangesTyped DEF RepairScript
<1>13. ASSUME NEW a \in Author, Replace(a) PROVE JsonTypeOK'
  <2>1. disk' \in Documents(Kinds)
    BY <1>13, ChangesTyped DEF Replace
  <2>2. author' \in [Author -> Change]
    BY <1>13, ChangesTyped DEF Replace
  <2>3. QED
    BY <1>13, <2>1, <2>2 DEF Replace
<1>14. QED
  BY <1>1, <1>3, <1>4, <1>5, <1>6, <1>7, <1>8, <1>9, <1>10, <1>11, <1>12, <1>13 DEF JsonNext

\* SerialKept needs the copies: the serial number that a thread writes is the one it read
\* some steps before, and the file may have changed since.
LEMMA SerialStep ==
  JsonTypeOK /\ SerialKept /\ CopyHasSerial /\ [JsonNext]_jsonVars
    => SerialKept' /\ CopyHasSerial'
<1> SUFFICES ASSUME JsonTypeOK, SerialKept, CopyHasSerial, [JsonNext]_jsonVars
             PROVE  SerialKept' /\ CopyHasSerial'
  OBVIOUS
<1> USE DEF SerialKept, CopyHasSerial
<1>1. CASE UNCHANGED jsonVars
  BY <1>1 DEF jsonVars, Readable
<1>2. CASE PowerCut
  <2>1. \A a \in Author : author'[a].pc = "none"
    BY <1>2, DocumentsTyped DEF PowerCut
  <2>2. bootSerial /\ Readable(disk)' => disk'.serial
    BY <1>2 DEF PowerCut, Readable, Serial, JsonTypeOK, Documents
  <2>3. QED
    BY <1>2, <2>1, <2>2 DEF PowerCut
<1>3. ASSUME NEW a \in Author, NEW f \in Field, SetField(a, f)
      PROVE  SerialKept' /\ CopyHasSerial'
  BY <1>3 DEF SetField, Readable, JsonTypeOK
<1>4. ASSUME NEW a \in Author, Load(a) PROVE SerialKept' /\ CopyHasSerial'
  BY <1>4 DEF Load, Readable, JsonTypeOK
<1>5. ASSUME NEW a \in Author, Identify(a) PROVE SerialKept' /\ CopyHasSerial'
  BY <1>5 DEF Identify, Readable, JsonTypeOK, Serial, Documents
<1>6. ASSUME NEW a \in Author, Truncate(a) PROVE SerialKept' /\ CopyHasSerial'
  BY <1>6 DEF Truncate, Readable, JsonTypeOK, Truncated, Document
<1>7. ASSUME NEW a \in Author, Dump(a) PROVE SerialKept' /\ CopyHasSerial'
  BY <1>7, DocumentsTyped DEF Dump, Readable, JsonTypeOK, Garbled, Document
<1>8. ASSUME NEW a \in Author, DumpToOldFile(a) PROVE SerialKept' /\ CopyHasSerial'
  BY <1>8, DocumentsTyped DEF DumpToOldFile, Readable, JsonTypeOK
<1>9. ASSUME NEW a \in Author, RepairIdentity(a) PROVE SerialKept' /\ CopyHasSerial'
  <2>1. author'[a].copy = [disk EXCEPT !.serial = Serial(disk)]
    BY <1>9, ChangesTyped DEF RepairIdentity, JsonTypeOK, NoChange
  <2>2. bootSerial => author'[a].copy.serial
    BY <1>9, <2>1, RewritesTyped DEF RepairIdentity, JsonTypeOK
  <2>3. QED
    BY <1>9, <2>2 DEF RepairIdentity, Readable, JsonTypeOK
<1>10. ASSUME NEW a \in Author, Migrate(a) PROVE SerialKept' /\ CopyHasSerial'
  <2>1. author'[a].copy = disk
    BY <1>10, DocumentsTyped DEF Migrate, JsonTypeOK, NoChange
  <2>2. QED
    BY <1>10, <2>1 DEF Migrate, Readable, JsonTypeOK
<1>11. ASSUME NEW a \in Author, RepairScript(a) PROVE SerialKept' /\ CopyHasSerial'
  <2>1. author'[a].copy = AtSetup
    BY <1>11, DocumentsTyped DEF RepairScript, JsonTypeOK, NoChange
  <2>2. QED
    BY <1>11, <2>1, RewritesTyped DEF RepairScript, Readable, JsonTypeOK
<1>12. ASSUME NEW a \in Author, Replace(a) PROVE SerialKept' /\ CopyHasSerial'
  <2>1. \A b \in Author : author'[b].pc \in {"open", "dump", "replace"} => author'[b] = author[b]
    BY <1>12, DocumentsTyped DEF Replace, JsonTypeOK, Change
  <2>2. QED
    BY <1>12, <2>1 DEF Replace, Readable, JsonTypeOK
<1>13. QED
  BY <1>1, <1>2, <1>3, <1>4, <1>5, <1>6, <1>7, <1>8, <1>9, <1>10, <1>11, <1>12 DEF JsonNext

LEMMA OneAuthorStep ==
  JsonTypeOK /\ OneAuthor /\ [JsonNext]_jsonVars => OneAuthor'
<1> SUFFICES ASSUME JsonTypeOK, OneAuthor, [JsonNext]_jsonVars PROVE OneAuthor'
  OBVIOUS
<1> USE DEF OneAuthor, FileAtRest, JsonTypeOK
<1>1. CASE UNCHANGED jsonVars
  BY <1>1 DEF jsonVars
<1>2. CASE PowerCut
  BY <1>2, DocumentsTyped DEF PowerCut
<1>3. ASSUME NEW a \in Author, NEW f \in Field, SetField(a, f) PROVE OneAuthor'
  BY <1>3 DEF SetField, Overlap
<1>4. ASSUME NEW a \in Author, Load(a) PROVE OneAuthor'
  BY <1>4 DEF Load
<1>5. ASSUME NEW a \in Author, Identify(a) PROVE OneAuthor'
  BY <1>5 DEF Identify
<1>6. ASSUME NEW a \in Author, Truncate(a) PROVE OneAuthor'
  BY <1>6 DEF Truncate
<1>7. ASSUME NEW a \in Author, Dump(a) PROVE OneAuthor'
  BY <1>7, DocumentsTyped DEF Dump
<1>8. ASSUME NEW a \in Author, DumpToOldFile(a) PROVE OneAuthor'
  BY <1>8, DocumentsTyped DEF DumpToOldFile
<1>9. ASSUME NEW a \in Author, RepairIdentity(a) PROVE OneAuthor'
  BY <1>9 DEF RepairIdentity, Overlap
<1>10. ASSUME NEW a \in Author, Migrate(a) PROVE OneAuthor'
  BY <1>10 DEF Migrate, Overlap
<1>11. ASSUME NEW a \in Author, RepairScript(a) PROVE OneAuthor'
  BY <1>11 DEF RepairScript
<1>12. ASSUME NEW a \in Author, Replace(a) PROVE OneAuthor'
  <2>1. \A b \in Author : author'[b].pc # "none" => author[b].pc # "none"
    BY <1>12, DocumentsTyped DEF Replace
  <2>2. spoiled' = spoiled
    BY <1>12 DEF Replace
  <2>3. QED
    BY <2>1, <2>2
<1>13. QED
  BY <1>1, <1>2, <1>3, <1>4, <1>5, <1>6, <1>7, <1>8, <1>9, <1>10, <1>11, <1>12 DEF JsonNext

LEMMA SettingsStep ==
  JsonTypeOK /\ OneAuthor /\ OneAuthor' /\ SettingsSomewhere /\ [JsonNext]_jsonVars
    => SettingsSomewhere'
<1> SUFFICES ASSUME JsonTypeOK, OneAuthor, OneAuthor', SettingsSomewhere, [JsonNext]_jsonVars,
                    ~spoiled'
             PROVE  SettingsSomewhere'
  BY DEF SettingsSomewhere
<1>0. ~spoiled
  BY DEF JsonNext, PowerCut, SetField, Load, Identify, Truncate, Dump, DumpToOldFile,
         RepairIdentity, Migrate, RepairScript, Replace, jsonVars
<1> USE <1>0 DEF OneAuthor, FileAtRest, SettingsSomewhere, JsonTypeOK
<1>1. CASE UNCHANGED jsonVars
  BY <1>1 DEF jsonVars, Readable, Changed
<1>2. CASE PowerCut
  <2>1. \A a \in Author : author'[a].pc = "none"
    BY <1>2, DocumentsTyped DEF PowerCut
  <2>2. disk # Truncated
    BY <1>2 DEF PowerCut
  <2>3. Readable(disk) /\ disk.settings = meant
    BY <2>2
  <2>4. Readable(disk)' /\ disk'.settings = meant'
    BY <1>2, <2>3 DEF PowerCut, Readable, Documents
  <2>5. QED
    BY <2>1, <2>4
<1>3. ASSUME NEW a \in Author, NEW f \in Field, SetField(a, f) PROVE SettingsSomewhere'
  <2>1. \A b \in Author : author[b].pc = "none"
    BY <1>3 DEF SetField, Overlap
  <2>2. \A b \in Author : author'[b].pc \in {"none", "load"}
    BY <1>3, <2>1 DEF SetField
  <2>3. Readable(disk) /\ disk.settings = meant
    BY <2>1
  <2>4. QED
    BY <1>3, <2>2, <2>3 DEF SetField, Readable
<1>4. ASSUME NEW a \in Author, Load(a) PROVE SettingsSomewhere'
  <2>1. \A b \in Author \ {a} : author[b].pc = "none" /\ author'[b].pc = "none"
    BY <1>4 DEF Load
  <2>2. Readable(disk) /\ disk.settings = meant
    BY <1>4, <2>1 DEF Load
  <2>3. Parsed(disk) = disk
    BY <2>2 DEF Parsed
  <2>4. author'[a].pc = "identify" /\ author'[a].field = author[a].field
          /\ author'[a].value = author[a].value
          /\ author'[a].copy.settings = Changed(a)
    <3> DEFINE copy == [disk EXCEPT !.settings[author[a].field] = author[a].value]
    <3>1. author' = [author EXCEPT ![a].pc = "identify", ![a].copy = copy]
      BY <1>4, <2>3 DEF Load
    <3>2. copy.settings = [disk.settings EXCEPT ![author[a].field] = author[a].value]
      BY DEF Documents
    <3> HIDE DEF copy
    <3>3. [meant EXCEPT ![author[a].field] = author[a].value] = Changed(a)
      BY JsonAssumption DEF Changed
    <3>4. author'[a] = [author[a] EXCEPT !.pc = "identify", !.copy = copy]
      BY <3>1
    <3>5. author'[a].pc = "identify" /\ author'[a].field = author[a].field
            /\ author'[a].value = author[a].value /\ author'[a].copy = copy
      BY <3>4 DEF Change
    <3>6. QED
      BY <2>2, <3>2, <3>3, <3>5
  <2>5. Changed(a)' = Changed(a)
    BY <1>4, <2>4 DEF Load, Changed
  <2>6. QED
    BY <1>4, <2>1, <2>2, <2>4, <2>5 DEF Load, Readable
<1>5. ASSUME NEW a \in Author, Identify(a) PROVE SettingsSomewhere'
  <2>1. \A b \in Author \ {a} : author[b].pc = "none" /\ author'[b].pc = "none"
    BY <1>5 DEF Identify
  <2>2. author'[a].pc = "open" /\ author'[a].field = author[a].field
          /\ author'[a].value = author[a].value
          /\ author'[a].copy.settings = author[a].copy.settings
    BY <1>5 DEF Identify, Documents
  <2>3. Readable(disk) /\ disk.settings = meant
    BY <1>5, <2>1 DEF Identify
  <2>4. author[a].copy.settings = Changed(a) /\ Changed(a)' = Changed(a)
    BY <1>5, <2>2 DEF Identify, Changed
  <2>5. QED
    BY <1>5, <2>1, <2>2, <2>3, <2>4 DEF Identify, Readable
<1>6. ASSUME NEW a \in Author, Truncate(a) PROVE SettingsSomewhere'
  <2>1. \A b \in Author \ {a} : author[b].pc = "none" /\ author'[b].pc = "none"
    BY <1>6 DEF Truncate
  <2>2. author'[a] = [author[a] EXCEPT !.pc = "dump"]
    BY <1>6 DEF Truncate
  <2>3. author[a].copy.settings = Changed(a) /\ Changed(a)' = Changed(a)
    BY <1>6, <2>2 DEF Truncate, Changed, Change
  <2>4. QED
    BY <1>6, <2>1, <2>2, <2>3 DEF Truncate
<1>7. ASSUME NEW a \in Author, Dump(a) PROVE SettingsSomewhere'
  <2>1. \A b \in Author : author'[b].pc = "none"
    BY <1>7, DocumentsTyped DEF Dump
  <2>2. disk = Truncated
    BY <1>7 DEF Dump
  <2>3. disk' = author[a].copy /\ author[a].copy.kind = "json"
    BY <1>7, <2>2 DEF Dump, Documents, Change
  <2>4. disk'.settings = meant'
    BY <1>7, <2>3 DEF Dump
  <2>5. QED
    BY <2>1, <2>3, <2>4 DEF Readable
<1>8. ASSUME NEW a \in Author, DumpToOldFile(a) PROVE SettingsSomewhere'
  <2>1. \A b \in Author : author'[b].pc = "none" /\ author[b].pc # "dump"
    BY <1>8, DocumentsTyped DEF DumpToOldFile
  <2>2. QED
    BY <1>8, <2>1 DEF DumpToOldFile, Readable
<1>9. ASSUME NEW a \in Author, RepairIdentity(a) PROVE SettingsSomewhere'
  <2>1. \A b \in Author : author[b].pc = "none"
    BY <1>9 DEF RepairIdentity, Overlap
  <2>2. disk.settings = meant /\ disk'  = disk /\ meant' = meant
    BY <1>9, <2>1 DEF RepairIdentity
  <2>3. author'[a].pc = "open" /\ author'[a].field = "none" /\ author'[a].copy.settings = disk.settings
    BY <1>9, RewritesTyped DEF RepairIdentity, NoChange
  <2>4. \A b \in Author \ {a} : author'[b].pc = "none"
    BY <1>9, <2>1 DEF RepairIdentity
  <2>5. QED
    BY <1>9, <2>2, <2>3, <2>4 DEF RepairIdentity, Changed, Readable
<1>10. ASSUME NEW a \in Author, Migrate(a) PROVE SettingsSomewhere'
  <2>1. \A b \in Author : author[b].pc = "none"
    BY <1>10 DEF Migrate, Overlap
  <2>2. disk.settings = meant /\ disk'  = disk /\ meant' = meant
    BY <1>10, <2>1 DEF Migrate
  <2>3. author'[a].pc = "replace" /\ author'[a].field = "none" /\ author'[a].copy = disk
    BY <1>10 DEF Migrate, NoChange
  <2>4. \A b \in Author \ {a} : author'[b].pc = "none"
    BY <1>10, <2>1 DEF Migrate
  <2>5. QED
    BY <1>10, <2>2, <2>3, <2>4 DEF Migrate, Changed, Readable
<1>11. ASSUME NEW a \in Author, RepairScript(a) PROVE SettingsSomewhere'
  BY <1>11 DEF RepairScript
<1>12. ASSUME NEW a \in Author, Replace(a) PROVE SettingsSomewhere'
  <2>1. \A b \in Author \ {a} : author[b].pc = "none"
    BY <1>12 DEF Replace
  <2>2. \A b \in Author : author'[b].pc = "none"
    BY <1>12, <2>1, DocumentsTyped DEF Replace
  <2>3. author[a].copy.settings = meant
    BY <1>12 DEF Replace, Changed
  <2>4. Readable(disk)' /\ disk'.settings = meant'
    BY <1>12, <2>3 DEF Replace, Documents, Readable, Change
  <2>5. QED
    BY <2>2, <2>4
<1>13. QED
  BY <1>1, <1>2, <1>3, <1>4, <1>5, <1>6, <1>7, <1>8, <1>9, <1>10, <1>11, <1>12 DEF JsonNext

LEMMA JsonInvStep == JsonInv /\ [JsonNext]_jsonVars => JsonInv'
BY JsonTypeStep, SerialStep, OneAuthorStep, SettingsStep DEF JsonInv

LEMMA JsonInvariant == JsonSpec => []JsonInv
<1>1. JsonInv /\ [JsonNext]_jsonVars => JsonInv'
  BY JsonInvStep
<1>2. QED
  BY JsonInvInit, <1>1, PTL DEF JsonSpec

\* Every variable has its type.
THEOREM JsonTypeCorrect == JsonSpec => []JsonTypeOK
<1>1. JsonInv => JsonTypeOK
  BY DEF JsonInv
<1>2. QED
  BY JsonInvariant, <1>1, PTL

\* No overlap of changes and no power cut takes the serial number of the boot partition
\* out of a file that can be read (canonicalize_identity).
THEOREM SerialNeverLost == JsonSpec => []SerialKept
<1>1. JsonInv => SerialKept
  BY DEF JsonInv
<1>2. QED
  BY JsonInvariant, <1>1, PTL

\* Without overlaps, and without power cuts while the file is truncated, the file at rest
\* has every setting as it was last written (_write_device_info).
THEOREM SettingsSurvive == JsonSpec => []SettingsKept
<1>1. JsonInv => SettingsKept
  BY DEF JsonInv, SettingsSomewhere, SettingsKept, FileAtRest
<1>2. QED
  BY JsonInvariant, <1>1, PTL

--------------------------------------------------------------------------------
\* The controllers.

\* The lists that a merge, a poll and a scan make.
LEMMA ListsTyped ==
  ASSUME NEW l \in [Mac -> Status], NEW bonds \in Bonds, NEW gone
  PROVE  /\ Merge(l, bonds) \in [Mac -> Status]
         /\ Left(l, gone) \in [Mac -> Status]
         /\ Synced(l) \in [Mac -> Status]
         /\ Connected(bonds) \subseteq Mac
BY DEF Merge, Left, Synced, Connected, Status, Bonds

\* The records of the workers and of the server thread, and what their steps make of them.
LEMMA WorkersTyped ==
  /\ NoBonds \in Bonds /\ NoScan \in Scanner /\ [NoScan EXCEPT !.pc = "publish"] \in Scanner
  /\ NoScan.pc = "none" /\ [NoScan EXCEPT !.pc = "publish"].pc = "publish"
  /\ [NoScan EXCEPT !.pc = "read"] \in Scanner /\ [NoScan EXCEPT !.pc = "read"].pc = "read"
  /\ NoConnect \in Connector /\ NoConnect.pc = "none"
  /\ \A c \in Connector :
       /\ [c EXCEPT !.pc = "try"] \in Connector /\ [c EXCEPT !.pc = "try"].mac = c.mac
       /\ [c EXCEPT !.pc = "try"].pc = "try"
       /\ [c EXCEPT !.pc = "answer"] \in Connector
       /\ [c EXCEPT !.pc = "answer"].mac = c.mac
       /\ [c EXCEPT !.pc = "answer", !.ok = TRUE] \in Connector
       /\ [c EXCEPT !.pc = "answer", !.ok = TRUE].mac = c.mac
  /\ NoSnapshot \in RowServer
  /\ \A s \in RowServer, gone \in SUBSET Mac :
       /\ [s EXCEPT !.pc = "connect"] \in RowServer /\ [s EXCEPT !.pc = "removed"] \in RowServer
       /\ [s EXCEPT !.pc = "start scan"] \in RowServer /\ [s EXCEPT !.pc = "start connect"] \in RowServer
       /\ [s EXCEPT !.removed = gone] \in RowServer
       /\ [s EXCEPT !.pc = "unpair", !.removed = gone] \in RowServer
BY DEF NoBonds, Bonds, NoScan, Scanner, NoConnect, Connector, NoSnapshot, RowServer

LEMMA ControllerTypeInit == ControllerInit => ControllerTypeOK
<1> SUFFICES ASSUME ControllerInit PROVE ControllerTypeOK
  OBVIOUS
<1>1. bond \in Bonds /\ list \in [Mac -> Status]
  BY DEF ControllerInit, Bonds, NoList, Status
<1>2. reader \in [Reading -> [pc : {"none", "merge"}, bonds : Bonds]]
  BY WorkersTyped DEF ControllerInit, NoRead
<1>3. scanner \in Scanner /\ connector \in Connector /\ rowServer \in RowServer /\ connector.pc = "none"
  BY WorkersTyped DEF ControllerInit
<1>4. cevents \in 0..MaxControllerEvent
  BY ControllerAssumption DEF ControllerInit
<1>5. QED
  BY <1>1, <1>2, <1>3, <1>4 DEF ControllerInit, ControllerTypeOK

LEMMA ControllerTypeStep ==
  ControllerTypeOK /\ [ControllerNext]_controllerVars => ControllerTypeOK'
<1> SUFFICES ASSUME ControllerTypeOK, [ControllerNext]_controllerVars PROVE ControllerTypeOK'
  OBVIOUS
<1> USE ControllerAssumption DEF ControllerTypeOK, state, ControllerEvent
<1>1. ASSUME NEW m \in Mac, BondChanges(m) PROVE ControllerTypeOK'
  BY <1>1 DEF BondChanges, Bonds
<1>2. ASSUME NEW r \in Reading, ReadBonds(r) PROVE ControllerTypeOK'
  BY <1>2 DEF ReadBonds
<1>3. CASE MergePoll
  BY <1>3, WorkersTyped, ListsTyped DEF MergePoll, Reading, NoRead
<1>4. CASE MergeRefresh
  BY <1>4, WorkersTyped, ListsTyped DEF MergeRefresh, Reading, NoRead
<1>5. CASE ScanReads \/ ScanStarts
  <2>1. CASE ScanReads
    BY <2>1 DEF ScanReads, Scanner
  <2>2. CASE ScanStarts
    BY <2>2, WorkersTyped DEF ScanStarts
  <2>3. QED
    BY <1>5, <2>1, <2>2
<1>6. CASE ScanFinds
  <2>1. list' \in [Mac -> Status] /\ scanner' \in Scanner
    BY <1>6, WorkersTyped, ListsTyped DEF ScanFinds, Scanner
  <2>2. found' \subseteq Mac
    BY <1>6 DEF ScanFinds, Discoverable
  <2>3. QED
    BY <1>6, <2>1, <2>2 DEF ScanFinds
<1>7. CASE ConnectStep
  <2>1. CASE Pair
    BY <1>7, <2>1 DEF Pair, Bonds
  <2>2. CASE TryConnect
    <3>1. bond' \in Bonds
      BY <1>7, <2>2 DEF TryConnect, Bonds
    <3>2. connector' \in Connector /\ connector'.mac \in Mac
      BY <1>7, <2>2, WorkersTyped DEF TryConnect
    <3>3. QED
      BY <1>7, <2>2, <3>1, <3>2 DEF TryConnect
  <2>3. CASE AnswerConnect
    BY <1>7, <2>3, WorkersTyped DEF AnswerConnect, Status
  <2>4. CASE ConnectStarts
    BY <1>7, <2>4, WorkersTyped DEF ConnectStarts
  <2>5. QED
    BY <1>7, <2>1, <2>2, <2>3, <2>4 DEF ConnectStep
<1>8. CASE TakeLists
  <2>1. PICK r \in Rows : list' = r.list /\ found' = r.found
                          /\ rowServer' = [pc |-> "scan", row |-> {r}, removed |-> {}]
    BY <1>8 DEF TakeLists
  <2>2. rowServer' \in RowServer
    BY <2>1 DEF RowServer
  <2>3. list' \in [Mac -> Status] /\ found' \subseteq Mac
    BY <2>1 DEF Rows
  <2>4. QED
    BY <1>8, <2>2, <2>3 DEF TakeLists
<1>9. CASE TakeScan
  <2>1. rowServer' \in RowServer
    BY <1>9, WorkersTyped DEF TakeScan
  <2>2. UNCHANGED <<scanner, list, found, isScan>> \/ StartScan(Synced(list))
    BY <1>9 DEF TakeScan
  <2>3. scanner' \in Scanner /\ list' \in [Mac -> Status] /\ found' \subseteq Mac /\ isScan' \in BOOLEAN
    <3>1. CASE UNCHANGED <<scanner, list, found, isScan>>
      BY <3>1
    <3>2. CASE StartScan(Synced(list))
      BY <3>2, WorkersTyped, ListsTyped DEF StartScan
    <3>3. QED
      BY <2>2, <3>1, <3>2
  <2>4. QED
    BY <1>9, <2>1, <2>3 DEF TakeScan
<1>10. CASE TakeConnect
  <2>1. rowServer' \in RowServer
    BY <1>10, WorkersTyped DEF TakeConnect
  <2>2. PICK r \in rowServer.row :
          \/ UNCHANGED <<connector, list, found>>
          \/ \E m \in Mac, rest \in SUBSET Mac : StartConnect(m, rest)
    <3>1. \A r \in rowServer.row : r.found \subseteq Mac
      BY DEF RowServer, Rows
    <3>2. QED
      BY <1>10, <3>1 DEF TakeConnect
  <2>3. connector' \in Connector /\ (connector'.pc # "none" => connector'.mac \in Mac)
        /\ list' \in [Mac -> Status] /\ found' \subseteq Mac
    <3>1. ASSUME NEW m \in Mac, NEW rest \in SUBSET Mac, StartConnect(m, rest)
          PROVE  /\ connector' \in Connector /\ connector'.mac \in Mac
                 /\ list' \in [Mac -> Status] /\ found' \subseteq Mac
      BY <3>1 DEF StartConnect, Connector, Status
    <3>2. QED
      BY <2>2, <3>1
  <2>4. QED
    BY <1>10, <2>1, <2>3 DEF TakeConnect
<1>11. CASE TakeRemoved
  <2>1. known' \subseteq Mac
    BY <1>11 DEF TakeRemoved
  <2>2. rowServer' \in RowServer
    <3>1. PICK gone \in SUBSET Mac :
            rowServer' \in {NoSnapshot, [rowServer EXCEPT !.pc = "unpair", !.removed = gone]}
      <4>1. \A r \in Rows : known \ {m \in Mac : r.list[m] # "absent"} \in SUBSET Mac
        OBVIOUS
      <4>2. rowServer.row \subseteq Rows
        BY DEF RowServer
      <4>3. QED
        BY <1>11, <4>1, <4>2 DEF TakeRemoved
    <3>2. rowServer \in RowServer /\ NoSnapshot \in RowServer
      BY WorkersTyped
    <3>3. [rowServer EXCEPT !.pc = "unpair", !.removed = gone] \in RowServer
      BY <3>2, WorkersTyped
    <3>4. QED
      BY <3>1, <3>2, <3>3
  <2>3. QED
    BY <1>11, <2>1, <2>2 DEF TakeRemoved
<1>12. ASSUME NEW m \in Mac, Unpair(m) PROVE ControllerTypeOK'
  <2>1. rowServer.removed \ {m} \in SUBSET Mac
    BY DEF RowServer
  <2>2. QED
    BY <1>12, <2>1, WorkersTyped DEF Unpair, Bonds
<1>13. CASE LocalScan
  <2>1. scanner' \in Scanner /\ isScan' \in BOOLEAN /\ found' \subseteq Mac
    BY <1>13, WorkersTyped DEF LocalScan, StartScan
  <2>2. QED
    BY <1>13, <2>1 DEF LocalScan, StartScan
<1>14. ASSUME NEW m \in Mac, LocalConnect(m) PROVE ControllerTypeOK'
  <2>1. PICK rest \in SUBSET Mac : StartConnect(m, rest)
    BY <1>14 DEF LocalConnect
  <2>2. connector' \in Connector /\ connector'.mac \in Mac
        /\ list' \in [Mac -> Status] /\ found' \subseteq Mac
    BY <2>1 DEF StartConnect, Connector, Status
  <2>3. QED
    BY <1>14, <2>2 DEF LocalConnect
<1>15. CASE UNCHANGED controllerVars
  BY <1>15 DEF controllerVars
<1>16. QED
  BY <1>1, <1>2, <1>3, <1>4, <1>5, <1>6, <1>7, <1>8, <1>9, <1>10, <1>11, <1>12, <1>13, <1>14, <1>15
     DEF ControllerNext, PollStep, ScanStep, ServerStep, Reading

\* A scan is started with the flag, and takes the flag away with itself.
LEMMA ScanEndsStep == ScanEnds /\ [ControllerNext]_controllerVars => ScanEnds'
<1> SUFFICES ASSUME ScanEnds, [ControllerNext]_controllerVars PROVE ScanEnds'
  OBVIOUS
<1>1. CASE ScanStarts \/ ScanReads \/ ScanFinds
  <2>1. CASE ScanStarts
    BY <2>1, WorkersTyped DEF ScanStarts, ScanEnds
  <2>2. CASE ScanReads \/ ScanFinds
    BY <2>2 DEF ScanReads, ScanFinds, ScanEnds, state
  <2>3. QED
    BY <1>1, <2>1, <2>2
<1>2. CASE LocalScan \/ TakeScan
  BY <1>2 DEF LocalScan, TakeScan, StartScan, ScanEnds, NoScan, state
<1>3. CASE UNCHANGED <<isScan, scanner>>
  BY <1>3 DEF ScanEnds
<1>4. QED
  BY <1>1, <1>2, <1>3
     DEF ControllerNext, controllerVars, state, PollStep, ScanStep, ConnectStep, ServerStep,
         ReadBonds, MergePoll, MergeRefresh, ConnectStarts, Pair, TryConnect, AnswerConnect, TakeLists,
         TakeConnect, TakeRemoved, Unpair, BondChanges, LocalConnect, StartConnect

\* The Bluetooth controller keeps its types (remote_bluetooth_sync_controller.py): an address
\* that is being connected is one of a controller.
THEOREM ControllerTypeCorrect == ControllerSpec => []ControllerTypeOK
BY ControllerTypeInit, ControllerTypeStep, PTL DEF ControllerSpec

\* Whoever starts a scan, and however it ends, the flag shown to the app is never set without
\* a worker that will take it away.
THEOREM ScanFlagGoes == ControllerSpec => []ScanEnds
<1>1. ControllerInit => ScanEnds
  BY DEF ControllerInit, ScanEnds
<1>2. QED
  BY <1>1, ScanEndsStep, PTL DEF ControllerSpec

--------------------------------------------------------------------------------
\* The dim window.

\* A level has a raw value above that of the dim window; a value on the way from one value to
\* another, and the goal of a transition, are raw values.
LEMMA RawValues ==
  /\ \A l \in Level : Raw(l) \in RawValue /\ Raw(l) # NoRaw
  /\ DimRaw \in RawValue
  /\ NoRaw \notin RawValue /\ NoTarget \notin RawValue
  /\ 0 \in Level
BY DimAssumption DEF Level, RawValue, Raw, DimRaw, NoRaw, NoTarget

LEMMA TransitionTyped ==
  ASSUME NEW goal \in RawValue, Transition(goal)
  PROVE  target' \in RawValue \cup {NoTarget}
BY DEF Transition

LEMMA NormalTyped ==
  ASSUME DimTypeOK
  PROVE  Normal \in RawValue
BY RawValues DEF DimTypeOK, Normal

LEMMA DimTypeInit == DimInit => DimTypeOK
<1> SUFFICES ASSUME DimInit PROVE DimTypeOK
  OBVIOUS
<1>1. panel \in RawValue /\ stored \in Level /\ SetterIdle.level \in Level
  BY RawValues DEF DimInit, SetterIdle
<1>2. QED
  BY <1>1 DEF DimInit, DimTypeOK, OverrideIsOfDim, SetterIdle

LEMMA DimTypeStep == DimTypeOK /\ [DimNext]_dimVars => DimTypeOK'
<1> SUFFICES ASSUME DimTypeOK, [DimNext]_dimVars PROVE DimTypeOK'
  OBVIOUS
<1> USE DEF DimTypeOK, OverrideIsOfDim
<1>1. CASE TransitionFrame
  BY <1>1 DEF TransitionFrame, Between
<1>2. CASE TransitionEnd
  BY <1>2, RawValues DEF TransitionEnd
<1>3. CASE EnterDim
  BY <1>3, RawValues, TransitionTyped DEF EnterDim
<1>4. CASE LeaveDim
  BY <1>4, NormalTyped, TransitionTyped DEF LeaveDim
<1>5. CASE ForceNormal
  BY <1>5, NormalTyped, TransitionTyped DEF ForceNormal
<1>6. CASE DimAgain
  BY <1>6, RawValues, TransitionTyped DEF DimAgain
<1>7. ASSUME NEW s \in BrightnessSetter, NEW l \in Level, SetBrightness(s, l) \/ SetByService(s, l)
      PROVE  DimTypeOK'
  <2>1. PICK p \in {"apply", "apply dimmed"} :
          setter' = [setter EXCEPT ![s] = [pc |-> p, level |-> l]]
    BY <1>7 DEF SetBrightness, SetByService
  <2>2. [pc |-> p, level |-> l] \in
          [pc : {"idle", "apply", "apply dimmed", "persist", "persist dimmed", "remember"},
           level : Level]
    OBVIOUS
  <2>3. UNCHANGED <<panel, target, stored, dimmed, before, forced, window, inGame>>
    BY <1>7 DEF SetBrightness, SetByService
  <2>4. QED
    BY <2>1, <2>2, <2>3
<1>8. ASSUME NEW s \in BrightnessSetter,
             ApplyBrightness(s) \/ PersistBrightness(s) \/ RememberBrightness(s)
      PROVE  DimTypeOK'
  <2>1. setter[s].level \in Level
    OBVIOUS
  <2>2. CASE ApplyBrightness(s)
    BY <2>1, <2>2, RawValues DEF ApplyBrightness
  <2>3. CASE PersistBrightness(s)
    BY <2>1, <2>3, RawValues DEF PersistBrightness, SetterIdle
  <2>4. CASE RememberBrightness(s)
    BY <2>1, <2>4, RawValues DEF RememberBrightness, SetterIdle
  <2>5. QED
    BY <1>8, <2>2, <2>3, <2>4
<1>9. CASE WindowChanges \/ ScreenChanges
  <2>1. window' \in BOOLEAN /\ inGame' \in BOOLEAN
    BY <1>9 DEF WindowChanges, ScreenChanges
  <2>2. UNCHANGED <<panel, target, stored, dimmed, before, forced, setter>>
    BY <1>9 DEF WindowChanges, ScreenChanges
  <2>3. QED
    BY <2>1, <2>2
<1>10. CASE UNCHANGED dimVars
  BY <1>10 DEF dimVars
<1>11. QED
  BY <1>1, <1>2, <1>3, <1>4, <1>5, <1>6, <1>7, <1>8, <1>9, <1>10 DEF DimNext

\* Brightness stays between the dim level and the brightest; the override by button ends with
\* the dimmed mode, and the dimmed mode knows the brightness to return to, whatever setters do
\* in between (runtime/display_loop.py).
THEOREM DimTypeCorrect == DimSpec => []DimTypeOK
BY DimTypeInit, DimTypeStep, PTL DEF DimSpec

--------------------------------------------------------------------------------
\* The six services together.

\* What is inductive of all of them.
ServiceInv ==
  DownloadInv /\ DimTypeOK /\ ControllerTypeOK /\ ScanEnds /\ FirmwareInv /\ JsonInv /\ BridgeInv

LEMMA ServiceInvInit == ServiceInit => ServiceInv
<1>1. ControllerInit => ScanEnds
  BY DEF ControllerInit, ScanEnds
<1>2. QED
  BY <1>1, DownloadInvInit, DimTypeInit, ControllerTypeInit, FirmwareInvInit, JsonInvInit,
     BridgeInvInit
  DEF ServiceInit, ServiceInv

\* A step of the services is a step, or none, of each of them.
LEMMA ServiceStepOfEach ==
  ASSUME [ServiceNext]_serviceVars
  PROVE  /\ [DownloadNext]_dvars
         /\ [DimNext]_dimVars
         /\ [ControllerNext]_controllerVars
         /\ [FirmwareNext]_firmwareVars
         /\ [JsonNext]_jsonVars
         /\ [BridgeNext]_bvars
BY DEF ServiceNext, Still, serviceVars

LEMMA ServiceInvStep == ServiceInv /\ [ServiceNext]_serviceVars => ServiceInv'
<1> SUFFICES ASSUME ServiceInv, [ServiceNext]_serviceVars PROVE ServiceInv'
  OBVIOUS
<1> USE ServiceStepOfEach DEF ServiceInv
<1>1. DownloadInv' /\ DimTypeOK'
  BY DownloadInvStep, DimTypeStep
<1>2. ControllerTypeOK' /\ ScanEnds'
  BY ControllerTypeStep, ScanEndsStep
<1>3. FirmwareInv'
  BY FirmwareInvStep
<1>4. JsonInv' /\ BridgeInv'
  BY JsonInvStep, BridgeInvStep
<1>5. QED
  BY <1>1, <1>2, <1>3, <1>4

LEMMA ServiceInvariant == ServiceSpec => []ServiceInv
BY ServiceInvInit, ServiceInvStep, PTL DEF ServiceSpec

\* The variables of the six services have their types, and what their type invariants say of
\* threads and processes holds, in every behaviour of the run.
THEOREM ServiceTypesHold == ServiceSpec => []ServiceTypeOK
<1>1. ServiceInv => ServiceTypeOK
  BY DEF ServiceInv, ServiceTypeOK, DownloadInv, FirmwareInv, JsonInv, BridgeInv
<1>2. QED
  BY ServiceInvariant, <1>1, PTL

\* No service loses a promise of its own when it is run beside the others, which start in any
\* of their initial states.
THEOREM ServicesKeepPromises ==
  ServiceSpec => [](/\ VerifiedOnDisk /\ ActiveHasWorker
                    /\ ScanEnds
                    /\ BannerHasUpdate /\ UpgradeShown /\ HalfInstalledIsMarked
                    /\ SerialKept /\ SettingsKept
                    /\ PatchesHaveOutbox /\ ConnectedIsServed)
<1>1. ServiceInv => VerifiedOnDisk /\ ActiveHasWorker /\ ScanEnds
  BY InvVerified DEF ServiceInv, DownloadInv
<1>2. ServiceInv => BannerHasUpdate /\ UpgradeShown /\ HalfInstalledIsMarked
  BY DEF ServiceInv, FirmwareInv, PartialIsMarked, HalfInstalledIsMarked, Working
<1>3. ServiceInv => SerialKept /\ SettingsKept
  BY DEF ServiceInv, JsonInv, SettingsSomewhere, SettingsKept, FileAtRest
<1>4. ServiceInv => PatchesHaveOutbox /\ ConnectedIsServed
  BY DEF ServiceInv, BridgeInv, PatchesHaveOutbox
<1>5. QED
  BY ServiceInvariant, <1>1, <1>2, <1>3, <1>4, PTL
=================================================================================
