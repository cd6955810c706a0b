----------------------------- MODULE BridgeSession -----------------------------
(***************************************************************************)
(* The sessions with the bridge process (supabase_sync_bridge.py).  A      *)
(* session is one _SyncClient: its outbox, its server thread on the unix   *)
(* socket, the thread that launches its bridge process and that process.   *)
(* Two threads manage sessions: "boot" (runtime/bootstrap.py) starts the   *)
(* first one, "loop" (check_connection_loop of main.py) restarts it when   *)
(* the internet comes back or the bridge is stale.  Sessions are numbered  *)
(* in order of creation; 0 is None.                                        *)
(***************************************************************************)
EXTENDS Naturals

CONSTANT MaxSession  \* bound: sessions created in a behaviour

ASSUME MaxSessionAssumption == MaxSession \in Nat \ {0}

Session == 1..MaxSession
Manager == {"boot", "loop"}

Label   == {"idle", "stop", "terminate", "client", "activity", "connected", "ensure", "wire", "done"}

VARIABLES
  pc,         \* where a manager is in ensure / restart / stop
  taken,      \* proc in stop_supabase_sync, by session
  sessions,   \* how many sessions have been created
  client,     \* _client
  engine,     \* the session whose outbox _sync_engine has, 0: it has none
  handle,     \* _bridge_proc, by session
  launch,     \* the thread _launch of a session
  proc,       \* the bridge process of a session
  server,     \* the thread _server of a session
  peer,       \* the session whose bridge a server has accepted
  path,       \* the session whose listener the socket path leads to
  connected,  \* _connected
  activity    \* _last_bridge_activity_at: "none", "fresh", or "stale"

globals == <<client, engine, handle, connected, activity>>
workers == <<launch, proc, server, peer, path>>
bvars   == <<pc, taken, sessions, globals, workers>>
--------------------------------------------------------------------------------
BridgeInit ==
  /\ pc = [m \in Manager |-> IF m = "boot" THEN "ensure" ELSE "idle"]
  /\ taken = 0 /\ sessions = 0 /\ client = 0 /\ engine = 0 /\ handle = 0 /\ path = 0
  /\ launch = [n \in Session |-> "none"]
  /\ proc = [n \in Session |-> "none"]
  /\ server = [n \in Session |-> "none"]
  /\ peer = [n \in Session |-> 0]
  /\ connected = FALSE /\ activity = "none"

Alive(n) == n # 0 /\ proc[n] = "alive"

\* A manager that builds a session holds _bridge_lock.
LockFree == \A m \in Manager : pc[m] # "wire"

\* is_supabase_bridge_stale: an exited process, or a silent one.
Stale ==
  /\ client # 0
  /\ handle # 0
  /\ ~Alive(handle) \/ activity = "stale"

Healthy == client # 0 /\ connected /\ ~Stale

\* A manager under way may create one more session; all stay within the bound.
Finished(m) == IF m = "boot" THEN "done" ELSE "idle"
Creating(m) == IF pc[m] = Finished(m) THEN 0 ELSE 1
Room == sessions + Creating("boot") < MaxSession
GotoLabel(m, label) == pc' = [pc EXCEPT ![m] = label]
--------------------------------------------------------------------------------
\* restart_supabase_sync returns at once when the bridge is healthy.  The loop
\* calls it when the internet has come back, which may be at any time, and when
\* the bridge is stale.
Restart ==
  /\ pc["loop"] = "idle"
  /\ ~Healthy
  /\ Room
  /\ pc' = [pc EXCEPT !["loop"] = "stop"]
  /\ UNCHANGED <<taken, sessions, globals, workers>>

\* stop_supabase_sync takes the handle under the lock; the rest it does without one, a
\* step at a time: the process is terminated, and the globals are cleared.
StopTakes ==
  /\ pc["loop"] = "stop"
  /\ LockFree
  /\ handle' = 0 /\ taken' = handle
  /\ GotoLabel("loop", "terminate")
  /\ UNCHANGED <<sessions, client, engine, connected, activity, workers>>

StopTerminates ==
  /\ pc["loop"] = "terminate"
  /\ proc' = IF Alive(taken) THEN [proc EXCEPT ![taken] = "dead"] ELSE proc
  /\ taken' = 0
  /\ GotoLabel("loop", "client")
  /\ UNCHANGED <<sessions, globals, launch, server, peer, path>>

StopClearsClient ==
  /\ pc["loop"] = "client"
  /\ client' = 0
  /\ GotoLabel("loop", "activity")
  /\ UNCHANGED <<taken, sessions, engine, handle, connected, activity, workers>>

StopClearsActivity ==
  /\ pc["loop"] = "activity"
  /\ activity' = "none"
  /\ GotoLabel("loop", "connected")
  /\ UNCHANGED <<taken, sessions, client, engine, handle, connected, workers>>

StopClearsConnected ==
  /\ pc["loop"] = "connected"
  /\ connected' = FALSE
  /\ GotoLabel("loop", "ensure")
  /\ UNCHANGED <<taken, sessions, client, engine, handle, activity, workers>>

Stops == StopTakes \/ StopTerminates \/ StopClearsClient \/ StopClearsActivity \/ StopClearsConnected

\* The engine is replaced before the check for a live process; a recorded
\* process is taken to be live.
Ensure_EngineFirst(m) ==
  /\ pc[m] = "ensure"
  /\ LockFree
  /\ engine' = 0
  /\ pc' = [pc EXCEPT ![m] = IF Alive(handle) THEN Finished(m) ELSE "wire"]
  /\ UNCHANGED <<taken, sessions, client, handle, connected, activity, workers>>

Ensure_NoPoll(m) ==
  /\ pc[m] = "ensure"
  /\ LockFree
  /\ IF handle # 0
     THEN /\ pc' = [pc EXCEPT ![m] = Finished(m)]
          /\ UNCHANGED engine
     ELSE /\ pc' = [pc EXCEPT ![m] = "wire"]
          /\ engine' = 0
  /\ UNCHANGED <<taken, sessions, client, handle, connected, activity, workers>>

\* ensure_supabase_sync_running takes the lock, returns when a live process is
\* recorded, and otherwise replaces the engine by one without an outbox.  (The
\* bridge binary is installed; without it no session is ever built.)
Ensure(m) ==
  /\ pc[m] = "ensure"
  /\ LockFree
  /\ IF Alive(handle)
     THEN /\ pc' = [pc EXCEPT ![m] = Finished(m)]
          /\ UNCHANGED engine
     ELSE /\ pc' = [pc EXCEPT ![m] = "wire"]
          /\ engine' = 0
  /\ UNCHANGED <<taken, sessions, client, handle, connected, activity, workers>>

\* The session is recorded before its process runs.
Wire_RecordsEarly(m) ==
  LET n == sessions + 1
  IN  /\ pc[m] = "wire"
      /\ sessions' = n
      /\ client' = n /\ engine' = n /\ handle' = n
      /\ connected' = FALSE
      /\ server' = [server EXCEPT ![n] = "unlink"]
      /\ launch' = [launch EXCEPT ![n] = "popen"]
      /\ pc' = [pc EXCEPT ![m] = Finished(m)]
      /\ UNCHANGED <<taken, activity, proc, peer, path>>

\* Still under the lock: the client with its outbox, its server thread and the
\* thread that launches its bridge.
Wire(m) ==
  LET n == sessions + 1
  IN  /\ pc[m] = "wire"
      /\ sessions' = n
      /\ client' = n
      /\ engine' = n
      /\ connected' = FALSE
      /\ server' = [server EXCEPT ![n] = "unlink"]
      /\ launch' = [launch EXCEPT ![n] = "popen"]
      /\ pc' = [pc EXCEPT ![m] = Finished(m)]
      /\ UNCHANGED <<taken, handle, activity, proc, peer, path>>
--------------------------------------------------------------------------------
\* _launch: Popen, which may fail, the seed of the liveness clock, and the
\* handle, under the lock.
Popen(n, ok) ==
  /\ launch[n] = "popen"
  /\ launch' = [launch EXCEPT ![n] = IF ok THEN "seed" ELSE "done"]
  /\ proc' = [proc EXCEPT ![n] = IF ok THEN "alive" ELSE "none"]
  /\ UNCHANGED <<pc, taken, sessions, globals, server, peer, path>>

Seed(n) ==
  /\ launch[n] = "seed"
  /\ activity' = "fresh"
  /\ launch' = [launch EXCEPT ![n] = "record"]
  /\ UNCHANGED <<pc, taken, sessions, client, engine, handle, connected, proc, server, peer, path>>

\* The handle is set without the lock.
Record_NoLock(n) ==
  /\ launch[n] = "record"
  /\ handle' = n
  /\ launch' = [launch EXCEPT ![n] = "done"]
  /\ UNCHANGED <<pc, taken, sessions, client, engine, connected, activity, proc, server, peer, path>>

Record(n) ==
  /\ launch[n] = "record"
  /\ LockFree
  /\ handle' = n
  /\ launch' = [launch EXCEPT ![n] = "done"]
  /\ UNCHANGED <<pc, taken, sessions, client, engine, connected, activity, proc, server, peer, path>>
--------------------------------------------------------------------------------
\* _server: it removes the socket file, binds (and ends if another server has
\* bound in between), accepts one connection, and serves it to its end.
Unlink(n) ==
  /\ server[n] = "unlink"
  /\ path' = 0
  /\ server' = [server EXCEPT ![n] = "bind"]
  /\ UNCHANGED <<pc, taken, sessions, globals, launch, proc, peer>>

Bind(n) ==
  /\ server[n] = "bind"
  /\ IF path = 0
     THEN /\ path' = n
          /\ server' = [server EXCEPT ![n] = "listen"]
          /\ UNCHANGED connected
     ELSE /\ server' = [server EXCEPT ![n] = "done"]
          /\ connected' = FALSE
          /\ UNCHANGED path
  /\ UNCHANGED <<pc, taken, sessions, client, engine, handle, activity, launch, proc, peer>>

\* A frame is read; a bridge_health frame also says whether the cloud is
\* reachable.  Frames the bridge left in the socket are read after its end.
Frame(n) ==
  /\ server[n] = "serve"
  /\ activity' = "fresh"
  /\ connected' \in BOOLEAN
  /\ UNCHANGED <<pc, taken, sessions, client, engine, handle, workers>>

\* The thread ends and forgets to report it.
Eof_Silent(n) ==
  /\ server[n] = "serve"
  /\ ~Alive(peer[n])
  /\ server' = [server EXCEPT ![n] = "done"]
  /\ UNCHANGED <<pc, taken, sessions, globals, launch, proc, peer, path>>

Eof(n) ==
  /\ server[n] = "serve"
  /\ ~Alive(peer[n])
  /\ server' = [server EXCEPT ![n] = "done"]
  /\ connected' = FALSE
  /\ UNCHANGED <<pc, taken, sessions, client, engine, handle, activity, launch, proc, peer, path>>
--------------------------------------------------------------------------------
\* Outside the code: a bridge process connects to whoever listens at the path,
\* it may exit or fall silent at any time.
Connects(n) ==
  /\ Alive(n)
  /\ \A m \in Session : peer[m] # n
  /\ path # 0
  /\ server[path] = "listen"
  /\ server' = [server EXCEPT ![path] = "serve"]
  /\ peer' = [peer EXCEPT ![path] = n]
  /\ UNCHANGED <<pc, taken, sessions, globals, launch, proc, path>>

Exits(n) ==
  /\ Alive(n)
  /\ proc' = [proc EXCEPT ![n] = "dead"]
  /\ UNCHANGED <<pc, taken, sessions, globals, launch, server, peer, path>>

\* More than _BRIDGE_STALE_SECONDS without a frame.
Silence ==
  /\ activity = "fresh"
  /\ activity' = "stale"
  /\ UNCHANGED <<pc, taken, sessions, client, engine, handle, connected, workers>>
--------------------------------------------------------------------------------
Manages(m) == Ensure(m) \/ Wire(m)
Launches(n) == (\E ok \in BOOLEAN : Popen(n, ok)) \/ Seed(n) \/ Record(n)
Serves(n) == Unlink(n) \/ Bind(n) \/ Eof(n)

BridgeNext ==
  \/ Restart \/ Stops
  \/ \E m \in Manager : Manages(m)
  \/ \E n \in Session : Launches(n) \/ Serves(n) \/ Frame(n) \/ Connects(n) \/ Exits(n)
  \/ Silence

BridgeSpec == BridgeInit /\ [][BridgeNext]_bvars

\* Threads are scheduled; the loop looks at the bridge every 10 s while there
\* is internet.
BridgeFairness ==
  /\ WF_bvars(Stale /\ Restart)
  /\ WF_bvars(Stops)
  /\ \A m \in Manager : WF_bvars(Manages(m))
  /\ \A n \in Session : WF_bvars(Launches(n)) /\ WF_bvars(Serves(n))

FairBridgeSpec == BridgeSpec /\ BridgeFairness
--------------------------------------------------------------------------------
\* Types, and how the variables depend on each other: a recorded handle is of a
\* process that was launched, sessions under way stay within the bound.
BridgeTypeOK ==
  /\ pc \in [Manager -> Label]
  /\ sessions \in Nat
  /\ sessions + Creating("boot") + Creating("loop") <= MaxSession
  /\ {taken, client, engine, handle, path} \subseteq Session \cup {0}
  /\ launch \in [Session -> {"none", "popen", "seed", "record", "done"}]
  /\ proc \in [Session -> {"none", "alive", "dead"}]
  /\ server \in [Session -> {"none", "unlink", "bind", "listen", "serve", "done"}]
  /\ peer \in [Session -> Session \cup {0}]
  /\ connected \in BOOLEAN
  /\ activity \in {"none", "fresh", "stale"}
  /\ \A n \in Session :
       /\ launch[n] \in {"seed", "record"} => proc[n] # "none"
       /\ handle = n => (launch[n] = "done" /\ proc[n] # "none")
       /\ n > sessions <=> launch[n] = "none"

\* Patches published while a session is active go to that session's outbox,
\* except while the lock holder is building the next one.
EngineOfClient == (client # 0 /\ LockFree) => engine = client

\* As long as a live bridge is recorded, published patches reach some outbox:
\* the comment in ensure_supabase_sync_running on why it returns early.
LiveBridgeHasOutbox == Alive(handle) => engine # 0

\* Both: a published patch is neither dropped while a bridge is alive nor given to
\* the outbox of a session that has been replaced (supabase_sync_bridge.py).
PatchesHaveOutbox == EngineOfClient /\ LiveBridgeHasOutbox

\* The device never shows itself connected when no server thread serves a
\* bridge, whichever threads of old and new sessions end in which order.
ConnectedIsServed == connected => \E n \in Session : server[n] = "serve"

\* A recorded bridge that has exited while the session is active is replaced: a later
\* session is wired and its launch comes to its end (its process is recorded, or its Popen
\* fails), or a session wired at the same time records its own live process over it.
DeadBridgeReplaced ==
  \A n \in Session : n < MaxSession =>
    ((client # 0 /\ handle = n /\ ~Alive(n)) ~>
       (Alive(handle) \/ \E m \in Session : m > n /\ launch[m] = "done"))

\* The loop recovers a wedged bridge: alive and flagged connected, but silent
\* for longer than the health window.
WedgeIsSeen ==
  (/\ \A m \in Manager : pc[m] \in {"idle", "done"}
   /\ Alive(handle) /\ connected /\ activity = "stale") => Stale
================================================================================
