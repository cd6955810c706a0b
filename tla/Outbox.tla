-------------------------------- MODULE Outbox ---------------------------------
(***************************************************************************)
(* SyncOutbox (runtime/sync/outbox.py) with the socket to the bridge       *)
(* process, the bridge and the cloud row behind it.                        *)
(*                                                                         *)
(* A ref of the code is the position of its entry in log.  _pending and    *)
(* _order hold the same refs in order of creation, both changed under one  *)
(* hold of _lock; they are the one set pending, walked in ascending order. *)
(* next_retry_at is a member of waiting while it lies in the future; the   *)
(* lengths of the backoff steps are left out.                              *)
(*                                                                         *)
(* Each hold of _lock is one step.  Between two holds a thread carries the *)
(* refs it has still to visit (todo) and the entry it read (held): that is *)
(* where threads interleave.                                               *)
(***************************************************************************)
EXTENDS Patches

CONSTANTS
  Thread,   \* the threads that flush: the outbox's own and those that publish
  Bg,       \* the thread "sync-outbox" of start()
  Inputs,   \* what publishers enqueue: a set of patches
  MaxRef,   \* bound: patches enqueued in a behaviour
  WireCap   \* bound: unread lines in the socket; sendall blocks beyond it

ASSUME OutboxAssumption ==
  /\ Bg \in Thread
  /\ Inputs \subseteq Patch
  /\ MaxRef \in Nat
  /\ WireCap \in Nat \ {0}

VARIABLES
  log,        \* every entry created, in order; see the note on refs above
  pending,    \* _pending and _order
  waiting,    \* pending refs whose next_retry_at is in the future
  lastAcked,  \* _last_acked_scalars
  pc,         \* where a thread is in enqueue / _flush_ready
  todo,       \* refs a flushing thread has still to visit
  held,       \* entry a thread read under the lock and is about to send
  link,       \* _SyncClient._conn: "none", then "up", then "down" for good
  wire,       \* refs written to the socket and not yet read by the bridge
  replies,    \* <<kind, ref>> replies of the bridge not yet read here
  row,        \* the cloud row
  applied,    \* history: refs the row has received
  asked       \* history: the patch each enqueue was called with

shared  == <<pending, waiting, lastAcked, log>>
threads == <<pc, todo, held>>
outside == <<link, wire, replies, row, applied>>
ovars   == <<shared, threads, outside, asked>>

Refs == 1..Len(log)
--------------------------------------------------------------------------------
OutboxInit ==
  /\ log = <<>> /\ asked = <<>>
  /\ pending = {} /\ waiting = {} /\ applied = {}
  /\ lastAcked = [k \in Key |-> Absent]
  /\ row = [k \in Key |-> Absent]
  /\ pc = [t \in Thread |-> "visit"]
  /\ todo = [t \in Thread |-> {}]
  /\ held = [t \in Thread |-> 0]
  /\ link = "none" /\ wire = <<>> /\ replies = {}

\* A thread is outside the outbox when it has no ref left to visit.
Idle(t) == pc[t] = "visit" /\ todo[t] = {}

\* A scalar patch whose every value equals the last acknowledged one is dropped.
Suppressed(p) ==
  /\ p.kind = "scalar"
  /\ \A k \in Keys(p) : lastAcked[k] = p.vals[k]

\* Entries already sent, or backing off, are left in place.
Absorbed_UnsentOnly(p, s) ==
  {r \in pending \ waiting :
     SameClass(log[r], [kind |-> p.kind, vals |-> p.vals, source |-> s])}

\* The pending entries that a new patch of this source absorbs.
Absorbed(p, s) ==
  {r \in pending :
     SameClass(log[r], [kind |-> p.kind, vals |-> p.vals, source |-> s])}

\* The merge with its operands swapped, and the merge left out.
Merged_OldWins(p, rs) ==
  [k \in Key |->
     LET having == {r \in rs : k \in Keys(log[r])}
     IN  IF having = {} THEN p.vals[k]
         ELSE log[CHOOSE r \in having : \A q \in having : r <= q].vals[k]]

Merged_KeysLost(p, rs) == p.vals

\* The merge takes the new value of a key, or else that of the oldest entry
\* absorbed that has the key.
Merged(p, rs) ==
  [k \in Key |->
     LET having == {r \in rs : k \in Keys(log[r])}
     IN  IF k \in Keys(p) \/ having = {} THEN p.vals[k]
         ELSE log[CHOOSE r \in having : \A q \in having : r <= q].vals[k]]

\* enqueue up to the release of the lock.  A thread that publishes is not
\* inside another call of the outbox.
Enqueue(t, p, s) ==
  /\ t # Bg
  /\ Idle(t)
  /\ Len(log) < MaxRef
  /\ ~Suppressed(p)
  /\ LET gone == Absorbed(p, s)
         e    == [kind |-> p.kind, vals |-> Merged(p, gone), source |-> s]
     IN  /\ log' = Append(log, e)
         /\ pending' = (pending \ gone) \cup {Len(log) + 1}
         /\ waiting' = waiting \ gone
  /\ asked' = Append(asked, p)
  /\ pc' = [pc EXCEPT ![t] = "flush"]
  /\ UNCHANGED <<lastAcked, todo, held, outside>>

\* Only the publishers flush: _run's timer never does.
FlushBegin_NoTimer(t) ==
  /\ pc[t] = "flush"
  /\ todo' = [todo EXCEPT ![t] = pending \ waiting]
  /\ pc' = [pc EXCEPT ![t] = "visit"]
  /\ UNCHANGED <<shared, held, outside, asked>>

\* _flush_ready, called by enqueue and every 0.5 s by _run, reads the clock
\* and copies the refs.  Refs that wait at this time are skipped, however long
\* the flush takes: they are compared with the clock read here.
FlushBegin(t) ==
  /\ IF t = Bg THEN Idle(t) ELSE pc[t] = "flush"
  /\ todo' = [todo EXCEPT ![t] = pending \ waiting]
  /\ pc' = [pc EXCEPT ![t] = "visit"]
  /\ UNCHANGED <<shared, held, outside, asked>>

\* The next ref, if it is still pending, is read under the lock.
Visit(t) ==
  /\ pc[t] = "visit"
  /\ \E r \in todo[t] :
       /\ \A q \in todo[t] : r <= q
       /\ todo' = [todo EXCEPT ![t] = @ \ {r}]
       /\ IF r \in pending
          THEN /\ held' = [held EXCEPT ![t] = r]
               /\ pc' = [pc EXCEPT ![t] = "send"]
          ELSE UNCHANGED <<held, pc>>
  /\ UNCHANGED <<shared, outside, asked>>

\* _send_fn: the line goes out if the bridge is connected, else it returns
\* False.  No lock of the outbox is held.
Send(t) ==
  /\ pc[t] = "send"
  /\ IF link = "up"
     THEN /\ Len(wire) < WireCap
          /\ wire' = Append(wire, held[t])
     ELSE UNCHANGED wire
  /\ pc' = [pc EXCEPT ![t] = "mark"]
  /\ UNCHANGED <<shared, todo, held, link, replies, row, applied, asked>>

\* A ref put off by one thread lies in the future of every flush under way.
PutOff(r) ==
  /\ waiting' = waiting \cup {r}
  /\ todo' = [t \in Thread |-> todo[t] \ {r}]

\* The entry is put off without looking it up again.
Mark_NoRecheck(t) ==
  /\ pc[t] = "mark"
  /\ PutOff(held[t])
  /\ held' = [held EXCEPT ![t] = 0]
  /\ pc' = [pc EXCEPT ![t] = "visit"]
  /\ UNCHANGED <<pending, lastAcked, log, outside, asked>>

\* Under the lock again: the entry, if still pending, waits for its ack
\* (sent) or for its backoff (not sent).
Mark(t) ==
  /\ pc[t] = "mark"
  /\ IF held[t] \in pending THEN PutOff(held[t]) ELSE UNCHANGED <<waiting, todo>>
  /\ held' = [held EXCEPT ![t] = 0]
  /\ pc' = [pc EXCEPT ![t] = "visit"]
  /\ UNCHANGED <<pending, lastAcked, log, outside, asked>>

\* The clock passes next_retry_at.
Expire(r) ==
  /\ r \in waiting
  /\ waiting' = waiting \ {r}
  /\ UNCHANGED <<pending, lastAcked, log, threads, outside, asked>>
--------------------------------------------------------------------------------
\* The server thread hands the bridge's replies to on_ack and on_error.
OnAck(r) ==
  /\ <<"ack", r>> \in replies
  /\ replies' = replies \ {<<"ack", r>>}
  /\ pending' = pending \ {r}
  /\ waiting' = waiting \ {r}
  /\ lastAcked' =
       IF r \in pending /\ log[r].kind = "scalar"
       THEN [k \in Key |-> IF k \in Keys(log[r]) THEN log[r].vals[k] ELSE lastAcked[k]]
       ELSE lastAcked
  /\ UNCHANGED <<log, threads, link, wire, row, applied, asked>>

\* An error reply taken for a settled patch.
OnError_Drops(r) ==
  /\ <<"error", r>> \in replies
  /\ replies' = replies \ {<<"error", r>>}
  /\ pending' = pending \ {r}
  /\ waiting' = waiting \ {r}
  /\ UNCHANGED <<lastAcked, log, threads, link, wire, row, applied, asked>>

OnError(r) ==
  /\ <<"error", r>> \in replies
  /\ replies' = replies \ {<<"error", r>>}
  /\ IF r \in pending THEN PutOff(r) ELSE UNCHANGED <<waiting, todo>>
  /\ UNCHANGED <<pending, lastAcked, log, pc, held, link, wire, row, applied, asked>>
--------------------------------------------------------------------------------
\* Outside the code: the socket, the bridge process and the row.

Connect ==
  /\ link = "none"
  /\ link' = "up"
  /\ UNCHANGED <<shared, threads, wire, replies, row, applied, asked>>

\* The bridge ends; what it has not read is lost, its last replies may be too.
Disconnect ==
  /\ link = "up"
  /\ link' = "down"
  /\ wire' = <<>>
  /\ replies' \in SUBSET replies
  /\ UNCHANGED <<shared, threads, row, applied, asked>>

\* The bridge reads a line; ok: the row takes it; reply: the answer arrives.
BridgeTakes(ok, reply) ==
  /\ link = "up"
  /\ wire # <<>>
  /\ LET r == Head(wire)
     IN  /\ wire' = Tail(wire)
         /\ IF ok
            THEN /\ row' = [k \in Key |-> IF k \in Keys(log[r]) THEN log[r].vals[k] ELSE row[k]]
                 /\ applied' = applied \cup {r}
            ELSE UNCHANGED <<row, applied>>
         /\ replies' =
              IF reply THEN replies \cup {<<IF ok THEN "ack" ELSE "error", r>>} ELSE replies
  /\ UNCHANGED <<shared, threads, link, asked>>
--------------------------------------------------------------------------------
Step(t) == FlushBegin(t) \/ Visit(t) \/ Send(t) \/ Mark(t)

OutboxNext ==
  \/ \E t \in Thread, p \in Inputs, s \in Source : Enqueue(t, p, s)
  \/ \E t \in Thread : Step(t)
  \/ \E r \in Refs : Expire(r) \/ OnAck(r) \/ OnError(r)
  \/ Connect
  \/ Disconnect
  \/ \E ok, reply \in BOOLEAN : BridgeTakes(ok, reply)

OutboxSpec == OutboxInit /\ [][OutboxNext]_ovars

\* Threads are scheduled, the clock advances, the bridge comes up, reads its
\* socket and does not fail for ever.
Fairness ==
  /\ \A t \in Thread : WF_ovars(Step(t))
  /\ \A r \in 1..MaxRef : /\ WF_ovars(Expire(r))
                          /\ WF_ovars(OnAck(r))
                          /\ WF_ovars(OnError(r))
  /\ WF_ovars(Connect)
  /\ WF_ovars(\E ok, reply \in BOOLEAN : BridgeTakes(ok, reply))
  /\ \A r \in 1..MaxRef : SF_ovars(wire # <<>> /\ Head(wire) = r /\ BridgeTakes(TRUE, TRUE))

FairSpec == OutboxSpec /\ Fairness
--------------------------------------------------------------------------------
OutboxTypeOK ==
  /\ log \in Seq(Entry)
  /\ asked \in Seq(Patch)
  /\ Len(asked) = Len(log)
  /\ pending \subseteq Refs
  /\ waiting \subseteq pending
  /\ applied \subseteq Refs
  /\ lastAcked \in [Key -> Value \cup {Absent}]
  /\ row \in [Key -> Value \cup {Absent}]
  /\ pc \in [Thread -> {"flush", "visit", "send", "mark"}]
  /\ todo \in [Thread -> SUBSET Refs]
  /\ held \in [Thread -> Refs \cup {0}]
  /\ \A t \in Thread : pc[t] \in {"send", "mark"} => held[t] \in Refs
  /\ link \in {"none", "up", "down"}
  /\ wire \in Seq(Refs)
  /\ replies \subseteq {"ack", "error"} \X Refs

\* enqueue leaves at most one pending entry to coalesce with: one scalar patch
\* per source, one status patch per source and game.  The merge loop relies on
\* it: it lets the first entry it meets win over later ones.
OnePendingPerClass ==
  \A q, r \in pending : SameClass(log[q], log[r]) => q = r

\* No key of an enqueued patch is forgotten on the way, by coalescing, by an
\* error reply or by an ack: each patch is pending or applied, or one that
\* covers it is.
NothingLost ==
  \A r \in Refs :
    \E q \in pending \cup applied : q = r \/ (q > r /\ Covers(log[q], log[r]))

\* A pending coalesced entry carries for each of its keys the value of the
\* newest enqueue of its class that had the key, whatever the number of merges,
\* retries and errors in between.
PendingIsFreshest ==
  \A r \in pending, k \in Key :
    (log[r].kind # "other" /\ k \in Keys(log[r])) =>
      \E q \in 1..r :
        /\ SameClass(log[q], log[r])
        /\ k \in Keys(asked[q])
        /\ log[r].vals[k] = asked[q].vals[k]
        /\ \A n \in (q + 1)..r : SameClass(log[n], log[r]) => k \notin Keys(asked[n])

\* While the bridge stays, every enqueued patch leaves the outbox: lost lines,
\* lost acks and error replies are made good by the retries of _run.
EventuallySettled ==
  \A r \in 1..MaxRef : []<>(r \notin pending \/ link = "down")

\* The outbox delivers what PatchDelivery promises.
Delivery == INSTANCE PatchDelivery WITH owed <- pending, got <- applied
DeliverySpec == Delivery!Spec

Quiet ==
  /\ pending = {} /\ wire = <<>> /\ replies = {}
  /\ \A t \in Thread : Idle(t)

\* request_set_game_status relies on the outbox so that publishing the same
\* status again is redundant: once nothing is on its way, the row shows the
\* newest status enqueued for each game.
RowShowsNewestStatus ==
  Quiet => \A k \in Key, q \in 1..Len(asked) :
    (/\ asked[q].kind = "status" /\ k \in Keys(asked[q])
     /\ \A n \in (q + 1)..Len(asked) : k \notin Keys(asked[n]))
    => row[k] = asked[q].vals[k]
================================================================================
