------------------------------ MODULE OutboxProofs -----------------------------
(***************************************************************************)
(* Proofs about Outbox for every set of threads, keys, values, sources and *)
(* inputs and every bound.                                                 *)
(***************************************************************************)
EXTENDS Outbox, SequenceTheorems, WellFoundedInduction, TLAPS

\* A nonempty set of refs has an oldest member.
LEMMA OldestExists ==
  ASSUME NEW S, S \subseteq Nat, S # {}
  PROVE  \E r \in S : \A q \in S : r <= q
<1> DEFINE R == {ss \in Nat \X Nat : ss[1] < ss[2]}
<1>1. IsWellFoundedOn(R, Nat)
  BY NatLessThanWellFounded DEF OpToRel
<1>2. \A q, r \in Nat : q < r => <<q, r>> \in R
  OBVIOUS
<1> HIDE DEF R
<1>3. PICK r \in S : \A q \in S : ~(<<q, r>> \in R)
  BY <1>1, WFMin
<1>4. ASSUME NEW q \in S PROVE r <= q
  <2>1. q \in Nat /\ r \in Nat
    OBVIOUS
  <2>2. ~(q < r)
    BY <1>2, <1>3, <2>1
  <2>3. QED
    BY <2>1, <2>2
<1>5. QED
  BY <1>4

\* What Merged returns is the value part of a patch, whatever it absorbs.
LEMMA MergedType ==
  ASSUME log \in Seq(Entry), NEW p \in Patch, NEW rs \in SUBSET Refs
  PROVE  Merged(p, rs) \in [Key -> Value \cup {Absent}]
<1> SUFFICES ASSUME NEW k \in Key
             PROVE  Merged(p, rs)[k] \in Value \cup {Absent}
  BY DEF Merged
<1> DEFINE having == {r \in rs : k \in Keys(log[r])}
<1>1. CASE k \in Keys(p) \/ having = {}
  BY <1>1 DEF Merged, Patch
<1>2. CASE ~(k \in Keys(p) \/ having = {})
  <2> DEFINE c == CHOOSE r \in having : \A q \in having : r <= q
  <2>1. Merged(p, rs)[k] = log[c].vals[k]
    BY <1>2 DEF Merged
  <2>2. having \subseteq Nat
    <3>1. Len(log) \in Nat
      BY LenProperties
    <3>2. \A r \in 1..Len(log) : r \in Nat
      BY <3>1
    <3>3. QED
      BY <3>2 DEF Refs
  <2>3. c \in having
    BY <1>2, <2>2, OldestExists
  <2>4. log[c] \in Entry
    BY <2>3, ElementOfSeq DEF Refs
  <2> HIDE DEF c
  <2>5. QED
    BY <2>1, <2>4 DEF Entry
<1>3. QED
  BY <1>1, <1>2

\* The entry that enqueue creates, and what it does to the log.
LEMMA EnqueueLog ==
  ASSUME OutboxTypeOK, NEW t \in Thread, NEW p \in Inputs, NEW s \in Source,
         Enqueue(t, p, s)
  PROVE  /\ log' \in Seq(Entry)
         /\ Len(log') = Len(log) + 1
         /\ Len(log) \in Nat
         /\ Refs' = Refs \cup {Len(log) + 1}
         /\ \A r \in Refs : log'[r] = log[r]
         /\ log'[Len(log) + 1] =
              [kind |-> p.kind, vals |-> Merged(p, Absorbed(p, s)), source |-> s]
         /\ asked' \in Seq(Patch)
         /\ Len(asked') = Len(asked) + 1
         /\ \A r \in Refs : asked'[r] = asked[r]
         /\ asked'[Len(log) + 1] = p
<1> DEFINE e == [kind |-> p.kind, vals |-> Merged(p, Absorbed(p, s)), source |-> s]
<1>1. p \in Patch
  BY OutboxAssumption
<1>2. Absorbed(p, s) \in SUBSET Refs
  BY DEF Absorbed, OutboxTypeOK
<1>3. e \in Entry
  BY <1>1, <1>2, MergedType DEF Entry, Patch, OutboxTypeOK
<1>4. log' = Append(log, e) /\ asked' = Append(asked, p)
  BY DEF Enqueue
<1> HIDE DEF e
<1>5. Len(log) \in Nat /\ Len(asked) = Len(log)
  BY LenProperties DEF OutboxTypeOK
<1>6. /\ log' \in Seq(Entry)
      /\ Len(log') = Len(log) + 1
      /\ \A r \in 1..Len(log) : log'[r] = log[r]
      /\ log'[Len(log) + 1] = e
  BY <1>3, <1>4, AppendProperties DEF OutboxTypeOK
<1>7. /\ asked' \in Seq(Patch)
      /\ Len(asked') = Len(asked) + 1
      /\ \A r \in 1..Len(log) : asked'[r] = asked[r]
      /\ asked'[Len(log) + 1] = p
  BY <1>1, <1>4, <1>5, AppendProperties DEF OutboxTypeOK
<1>8. QED
  BY <1>5, <1>6, <1>7 DEF Refs, e

\* Every step keeps the types; refs stay valid because the log only grows.
LEMMA TypeStep == OutboxTypeOK /\ [OutboxNext]_ovars => OutboxTypeOK'
<1> SUFFICES ASSUME OutboxTypeOK, [OutboxNext]_ovars
             PROVE  OutboxTypeOK'
  OBVIOUS
<1> USE DEF shared, threads, outside, Refs
<1>1. ASSUME NEW t \in Thread, NEW p \in Inputs, NEW s \in Source, Enqueue(t, p, s)
      PROVE  OutboxTypeOK'
  <2>1. /\ log' \in Seq(Entry) /\ asked' \in Seq(Patch)
        /\ Len(asked') = Len(log') /\ Len(log) \in Nat
        /\ Refs' = Refs \cup {Len(log) + 1}
    BY <1>1, EnqueueLog DEF OutboxTypeOK
  <2>2. wire' \in Seq(Refs')
    BY <1>1, <2>1, SeqMonotonic DEF Enqueue, OutboxTypeOK
  <2>3. /\ pending' \subseteq Refs' /\ waiting' \subseteq pending'
        /\ applied' \subseteq Refs'
        /\ replies' \subseteq {"ack", "error"} \X Refs'
    BY <1>1, <2>1 DEF Enqueue, OutboxTypeOK
  <2>4. /\ pc' \in [Thread -> {"flush", "visit", "send", "mark"}]
        /\ todo' \in [Thread -> SUBSET Refs']
        /\ held' \in [Thread -> Refs' \cup {0}]
        /\ \A u \in Thread : pc'[u] \in {"send", "mark"} => held'[u] \in Refs'
    BY <1>1, <2>1 DEF Enqueue, OutboxTypeOK, Idle
  <2>5. QED
    BY <1>1, <2>1, <2>2, <2>3, <2>4 DEF Enqueue, OutboxTypeOK
<1>2. ASSUME NEW t \in Thread, FlushBegin(t)
      PROVE  OutboxTypeOK'
  BY <1>2 DEF FlushBegin, OutboxTypeOK, Idle
<1>3. ASSUME NEW t \in Thread, Visit(t)
      PROVE  OutboxTypeOK'
  BY <1>3 DEF Visit, OutboxTypeOK
<1>4. ASSUME NEW t \in Thread, Send(t)
      PROVE  OutboxTypeOK'
  <2>1. held[t] \in Refs
    BY <1>4 DEF Send, OutboxTypeOK
  <2>2. wire' \in Seq(Refs)
    <3>1. wire \in Seq(Refs)
      BY DEF OutboxTypeOK
    <3>2. Append(wire, held[t]) \in Seq(Refs)
      BY <2>1, <3>1, AppendProperties
    <3>3. QED
      BY <1>4, <3>1, <3>2 DEF Send
  <2>3. pc' \in [Thread -> {"flush", "visit", "send", "mark"}]
    BY <1>4 DEF Send, OutboxTypeOK
  <2>4. \A u \in Thread : pc'[u] \in {"send", "mark"} => held[u] \in Refs
    BY <1>4, <2>1 DEF Send, OutboxTypeOK
  <2>5. QED
    BY <1>4, <2>2, <2>3, <2>4 DEF Send, OutboxTypeOK
<1>5. ASSUME NEW t \in Thread, Mark(t)
      PROVE  OutboxTypeOK'
  <2>1. held[t] \in Refs
    BY <1>5 DEF Mark, OutboxTypeOK
  <2>2. waiting' \subseteq pending /\ todo' \in [Thread -> SUBSET Refs]
    BY <1>5, <2>1 DEF Mark, PutOff, OutboxTypeOK
  <2>3. /\ pc' \in [Thread -> {"flush", "visit", "send", "mark"}]
        /\ held' \in [Thread -> Refs \cup {0}]
        /\ \A u \in Thread : pc'[u] \in {"send", "mark"} => held'[u] \in Refs
    BY <1>5 DEF Mark, OutboxTypeOK
  <2>4. QED
    BY <1>5, <2>2, <2>3 DEF Mark, OutboxTypeOK
<1>6. ASSUME NEW r \in Refs, Expire(r)
      PROVE  OutboxTypeOK'
  BY <1>6 DEF Expire, OutboxTypeOK
<1>7. ASSUME NEW r \in Refs, OnAck(r)
      PROVE  OutboxTypeOK'
  <2>1. lastAcked' \in [Key -> Value \cup {Absent}]
    <3>1. log[r] \in Entry
      BY <1>7, ElementOfSeq DEF OutboxTypeOK
    <3>2. QED
      BY <1>7, <3>1 DEF OnAck, OutboxTypeOK, Entry
  <2>2. pending' \subseteq Refs /\ waiting' \subseteq pending'
    BY <1>7 DEF OnAck, OutboxTypeOK
  <2>3. QED
    BY <1>7, <2>1, <2>2 DEF OnAck, OutboxTypeOK
<1>8. ASSUME NEW r \in Refs, OnError(r)
      PROVE  OutboxTypeOK'
  <2>1. waiting' \subseteq pending
    BY <1>8 DEF OnError, PutOff, OutboxTypeOK
  <2>3. todo' \in [Thread -> SUBSET Refs]
    BY <1>8 DEF OnError, PutOff, OutboxTypeOK
  <2>2. QED
    BY <1>8, <2>1, <2>3 DEF OnError, OutboxTypeOK
<1>9. CASE Connect
  BY <1>9 DEF Connect, OutboxTypeOK
<1>10. CASE Disconnect
  <2>1. <<>> \in Seq(Refs)
    BY EmptySeq
  <2>2. QED
    BY <1>10, <2>1 DEF Disconnect, OutboxTypeOK
<1>11. ASSUME NEW ok \in BOOLEAN, NEW reply \in BOOLEAN, BridgeTakes(ok, reply)
       PROVE  OutboxTypeOK'
  <2>1. Head(wire) \in Refs /\ Tail(wire) \in Seq(Refs)
    BY <1>11, HeadTailProperties DEF BridgeTakes, OutboxTypeOK
  <2>2. log[Head(wire)] \in Entry
    BY <2>1, ElementOfSeq DEF OutboxTypeOK
  <2>3. row' \in [Key -> Value \cup {Absent}]
    BY <1>11, <2>2 DEF BridgeTakes, OutboxTypeOK, Entry
  <2>4. applied' \subseteq Refs /\ replies' \subseteq {"ack", "error"} \X Refs
    <3>1. <<IF ok THEN "ack" ELSE "error", Head(wire)>> \in {"ack", "error"} \X Refs
      BY <2>1
    <3>2. QED
      BY <1>11, <2>1, <3>1 DEF BridgeTakes, OutboxTypeOK
  <2>5. QED
    BY <1>11, <2>1, <2>3, <2>4 DEF BridgeTakes, OutboxTypeOK
<1>12. CASE UNCHANGED ovars
  BY <1>12 DEF ovars, OutboxTypeOK
<1>13. QED
  BY <1>1, <1>2, <1>3, <1>4, <1>5, <1>6, <1>7, <1>8, <1>9, <1>10, <1>11, <1>12
     DEF OutboxNext, Step

LEMMA TypeInit == OutboxInit => OutboxTypeOK
<1> SUFFICES ASSUME OutboxInit PROVE OutboxTypeOK
  OBVIOUS
<1>1. /\ <<>> \in Seq(Entry) /\ <<>> \in Seq(Patch) /\ <<>> \in Seq(Refs)
      /\ Len(<<>>) = 0
  BY EmptySeq
<1>2. QED
  BY <1>1 DEF OutboxInit, OutboxTypeOK

\* Every state of the outbox is well typed; a ref that waits, is sent or is
\* answered is one that enqueue created.
THEOREM TypeCorrect == OutboxSpec => []OutboxTypeOK
<1>1. QED
  BY TypeInit, TypeStep, PTL DEF OutboxSpec
--------------------------------------------------------------------------------
\* An entry made from a patch covers every entry the patch absorbs.
LEMMA MergedCovers ==
  ASSUME OutboxTypeOK, NEW p \in Patch, NEW s \in Source, NEW q \in Absorbed(p, s)
  PROVE  Covers([kind |-> p.kind, vals |-> Merged(p, Absorbed(p, s)), source |-> s], log[q])
<1> DEFINE rs == Absorbed(p, s)
           e  == [kind |-> p.kind, vals |-> Merged(p, rs), source |-> s]
<1>1. SameClass(log[q], [kind |-> p.kind, vals |-> p.vals, source |-> s])
  BY DEF Absorbed
<1>2. ASSUME NEW k \in Keys(log[q])
      PROVE  k \in Keys(e)
  <2> DEFINE having == {r \in rs : k \in Keys(log[r])}
             c      == CHOOSE r \in having : \A x \in having : r <= x
  <2>1. k \in Key /\ q \in having
    BY DEF Keys
  <2>2. CASE k \in Keys(p)
    BY <2>1, <2>2 DEF Merged, Keys
  <2>3. CASE k \notin Keys(p)
    <3>1. Merged(p, rs)[k] = log[c].vals[k]
      BY <2>1, <2>3 DEF Merged
    <3>2. having \subseteq Nat
      <4>1. Len(log) \in Nat
        BY LenProperties DEF OutboxTypeOK
      <4>2. \A r \in 1..Len(log) : r \in Nat
        BY <4>1
      <4>3. rs \subseteq 1..Len(log)
        BY DEF Absorbed, OutboxTypeOK, Refs
      <4>4. QED
        BY <4>2, <4>3
    <3>3. c \in having
      BY <2>1, <3>2, OldestExists
    <3>4. log[c].vals[k] # Absent
      BY <3>3 DEF Keys
    <3>5. QED
      BY <2>1, <3>1, <3>4 DEF Keys
  <2>4. QED
    BY <2>2, <2>3
<1>3. QED
  BY <1>1, <1>2 DEF Covers, SameClass

\* The merged status of a game is about that game only.
LEMMA MergedStatus ==
  ASSUME NEW p \in Patch, NEW s \in Source, p.kind = "status"
  PROVE  Merged(p, Absorbed(p, s)) = p.vals
<1>1. ASSUME NEW k \in Key
      PROVE  Merged(p, Absorbed(p, s))[k] = p.vals[k]
  <2>1. \A r \in Absorbed(p, s) : Keys(log[r]) = Keys(p)
    BY DEF Absorbed, SameClass, Keys
  <2>2. QED
    BY <2>1 DEF Merged
<1>2. QED
  BY <1>1 DEF Merged, Patch

\* An ack is sent only for an entry the row has received.
AckMeansApplied == \A r \in Refs : <<"ack", r>> \in replies => r \in applied

\* What is inductive: an ack may remove an entry because the row has it, and
\* coalescing may because the new entry covers it.
Inductive ==
  /\ OutboxTypeOK
  /\ AckMeansApplied
  /\ OnePendingPerClass
  /\ NothingLost

LEMMA AckStep == OutboxTypeOK /\ AckMeansApplied /\ [OutboxNext]_ovars => AckMeansApplied'
<1> SUFFICES ASSUME OutboxTypeOK, AckMeansApplied, [OutboxNext]_ovars
             PROVE  AckMeansApplied'
  OBVIOUS
<1> USE DEF shared, threads, outside
<1>1. ASSUME NEW t \in Thread, NEW p \in Inputs, NEW s \in Source, Enqueue(t, p, s)
      PROVE  AckMeansApplied'
  <2>1. Len(log) \in Nat /\ Refs' = Refs \cup {Len(log) + 1}
    BY <1>1, EnqueueLog
  <2>2. replies' = replies /\ applied' = applied /\ replies \subseteq {"ack", "error"} \X Refs
    BY <1>1 DEF Enqueue, OutboxTypeOK
  <2>3. QED
    BY <2>1, <2>2 DEF AckMeansApplied
<1>2. ASSUME NEW t \in Thread, Step(t)
      PROVE  AckMeansApplied'
  <2>1. replies' = replies /\ applied' = applied /\ log' = log
    BY <1>2 DEF Step, FlushBegin, Visit, Send, Mark
  <2>2. QED
    BY <2>1 DEF AckMeansApplied, Refs
<1>3. ASSUME NEW r \in Refs, Expire(r) \/ OnAck(r) \/ OnError(r)
      PROVE  AckMeansApplied'
  <2>1. replies' \subseteq replies /\ applied' = applied /\ log' = log
    BY <1>3 DEF Expire, OnAck, OnError
  <2>2. QED
    BY <2>1 DEF AckMeansApplied, Refs
<1>4. CASE Connect \/ Disconnect
  <2>1. replies' \subseteq replies /\ applied' = applied /\ log' = log
    BY <1>4 DEF Connect, Disconnect
  <2>2. QED
    BY <2>1 DEF AckMeansApplied, Refs
<1>5. ASSUME NEW ok \in BOOLEAN, NEW reply \in BOOLEAN, BridgeTakes(ok, reply)
      PROVE  AckMeansApplied'
  <2>1. log' = log
    BY <1>5 DEF BridgeTakes
  <2>2. CASE ok
    <3>1. /\ applied' = applied \cup {Head(wire)}
          /\ replies' \subseteq replies \cup {<<"ack", Head(wire)>>}
      BY <1>5, <2>2 DEF BridgeTakes
    <3>2. QED
      BY <2>1, <3>1 DEF AckMeansApplied, Refs
  <2>3. CASE ~ok
    <3>1. /\ applied' = applied
          /\ replies' \subseteq replies \cup {<<"error", Head(wire)>>}
      BY <1>5, <2>3 DEF BridgeTakes
    <3>2. QED
      BY <2>1, <3>1 DEF AckMeansApplied, Refs
  <2>4. QED
    BY <2>2, <2>3
<1>6. CASE UNCHANGED ovars
  BY <1>6 DEF ovars, AckMeansApplied, Refs
<1>7. QED
  BY <1>1, <1>2, <1>3, <1>4, <1>5, <1>6 DEF OutboxNext

\* What the steps other than Enqueue leave alone: log and asked; and they remove
\* from pending only entries that the row has received.
LEMMA OtherSteps ==
  ASSUME OutboxTypeOK, AckMeansApplied, [OutboxNext]_ovars
  PROVE  \/ \E t \in Thread, p \in Inputs, s \in Source : Enqueue(t, p, s)
         \/ /\ log' = log /\ asked' = asked
            /\ pending' \subseteq pending
            /\ pending \ pending' \subseteq applied
            /\ applied \subseteq applied'
<1> USE DEF shared, threads, outside
<1>1. ASSUME NEW t \in Thread, Step(t)
      PROVE  log' = log /\ asked' = asked /\ pending' = pending /\ applied' = applied
  BY <1>1 DEF Step, FlushBegin, Visit, Send, Mark, PutOff
<1>2. ASSUME NEW r \in Refs, OnAck(r)
      PROVE  log' = log /\ asked' = asked /\ pending' = pending \ {r} /\ r \in applied /\ applied' = applied
  BY <1>2 DEF OnAck, AckMeansApplied
<1>3. ASSUME NEW r \in Refs, Expire(r) \/ OnError(r)
      PROVE  log' = log /\ asked' = asked /\ pending' = pending /\ applied' = applied
  BY <1>3 DEF Expire, OnError
<1>4. ASSUME Connect \/ Disconnect
      PROVE  log' = log /\ asked' = asked /\ pending' = pending /\ applied' = applied
  BY <1>4 DEF Connect, Disconnect
<1>5. ASSUME NEW ok \in BOOLEAN, NEW reply \in BOOLEAN, BridgeTakes(ok, reply)
      PROVE  log' = log /\ asked' = asked /\ pending' = pending /\ applied \subseteq applied'
  BY <1>5 DEF BridgeTakes
<1>6. ASSUME UNCHANGED ovars
      PROVE  log' = log /\ asked' = asked /\ pending' = pending /\ applied' = applied
  BY <1>6 DEF ovars
<1>7. QED
  BY <1>1, <1>2, <1>3, <1>4, <1>5, <1>6 DEF OutboxNext

\* Enqueue, seen from the entries: those absorbed go, a new one comes.
LEMMA EnqueuePending ==
  ASSUME OutboxTypeOK, NEW t \in Thread, NEW p \in Inputs, NEW s \in Source,
         Enqueue(t, p, s)
  PROVE  /\ pending' = (pending \ Absorbed(p, s)) \cup {Len(log) + 1}
         /\ pending \subseteq Refs
         /\ applied' = applied
         /\ applied \subseteq Refs
         /\ p \in Patch
         /\ \A r \in Refs : r < Len(log) + 1 /\ r \in Nat
<1>1. Len(log) \in Nat
  BY LenProperties DEF OutboxTypeOK
<1>2. \A r \in 1..Len(log) : r < Len(log) + 1 /\ r \in Nat
  BY <1>1
<1>3. QED
  BY <1>2, OutboxAssumption DEF Enqueue, outside, OutboxTypeOK, Refs

\* A new entry is of no class with an entry it left pending.
LEMMA OnePendingStep ==
  OutboxTypeOK /\ AckMeansApplied /\ OnePendingPerClass /\ [OutboxNext]_ovars
    => OnePendingPerClass'
<1> SUFFICES ASSUME OutboxTypeOK, AckMeansApplied, OnePendingPerClass, [OutboxNext]_ovars
             PROVE  OnePendingPerClass'
  OBVIOUS
<1>1. ASSUME NEW t \in Thread, NEW p \in Inputs, NEW s \in Source, Enqueue(t, p, s)
      PROVE  OnePendingPerClass'
  <2> DEFINE n == Len(log) + 1
             e == [kind |-> p.kind, vals |-> Merged(p, Absorbed(p, s)), source |-> s]
  <2>1. /\ pending' = (pending \ Absorbed(p, s)) \cup {n}
        /\ pending \subseteq Refs
        /\ p \in Patch
    BY <1>1, EnqueuePending
  <2>2. /\ \A r \in Refs : log'[r] = log[r]
        /\ log'[n] = e
    BY <1>1, EnqueueLog
  <2> HIDE DEF n
  <2>3. ASSUME NEW q \in pending \ Absorbed(p, s)
        PROVE  ~SameClass(log[q], e) /\ ~SameClass(e, log[q])
    <3>1. ~SameClass(log[q], [kind |-> p.kind, vals |-> p.vals, source |-> s])
      BY DEF Absorbed
    <3>2. p.kind = "status" => Merged(p, Absorbed(p, s)) = p.vals
      BY <2>1, MergedStatus
    <3>3. QED
      BY <3>1, <3>2 DEF SameClass, Keys
  <2>4. ASSUME NEW q \in pending', NEW r \in pending', SameClass(log'[q], log'[r])
        PROVE  q = r
    <3>1. CASE q = n \/ r = n
      BY <2>1, <2>2, <2>3, <2>4, <3>1
    <3>2. CASE q # n /\ r # n
      BY <2>1, <2>2, <2>4, <3>2 DEF OnePendingPerClass
    <3>3. QED
      BY <3>1, <3>2
  <2>5. QED
    BY <2>4 DEF OnePendingPerClass, SameClass, Keys
<1>2. CASE log' = log /\ pending' \subseteq pending
  BY <1>2 DEF OnePendingPerClass
<1>3. QED
  BY <1>1, <1>2, OtherSteps

\* Covering is transitive.
LEMMA CoversTransitive ==
  ASSUME NEW a, NEW b, NEW c, Covers(a, b), Covers(b, c)
  PROVE  Covers(a, c)
BY DEF Covers

\* An entry leaves pending because the row has it or because the newest entry
\* covers it.
LEMMA NothingLostStep ==
  OutboxTypeOK /\ AckMeansApplied /\ NothingLost /\ [OutboxNext]_ovars => NothingLost'
<1> SUFFICES ASSUME OutboxTypeOK, AckMeansApplied, NothingLost, [OutboxNext]_ovars
             PROVE  NothingLost'
  OBVIOUS
<1>1. ASSUME NEW t \in Thread, NEW p \in Inputs, NEW s \in Source, Enqueue(t, p, s)
      PROVE  NothingLost'
  <2> DEFINE n == Len(log) + 1
             e == [kind |-> p.kind, vals |-> Merged(p, Absorbed(p, s)), source |-> s]
  <2>1. /\ pending' = (pending \ Absorbed(p, s)) \cup {n}
        /\ pending \subseteq Refs
        /\ applied' = applied /\ applied \subseteq Refs
        /\ p \in Patch
        /\ \A r \in Refs : r < n
    BY <1>1, EnqueuePending
  <2>2. /\ Refs' = Refs \cup {n}
        /\ \A r \in Refs : log'[r] = log[r]
        /\ log'[n] = e
    BY <1>1, EnqueueLog
  <2>3. \A q \in Absorbed(p, s) : Covers(e, log[q])
    BY <2>1, MergedCovers
  <2> HIDE DEF n, e
  <2>4. ASSUME NEW r \in Refs
        PROVE  \E q \in pending' \cup applied' : q = r \/ (q > r /\ Covers(log'[q], log'[r]))
    <3>1. PICK q \in pending \cup applied : q = r \/ (q > r /\ Covers(log[q], log[r]))
      BY DEF NothingLost
    <3>2. CASE q \in Absorbed(p, s)
      <4>1. Covers(e, log[r])
        BY <2>3, <3>1, <3>2, CoversTransitive
      <4>2. QED
        BY <2>1, <2>2, <4>1
    <3>3. CASE q \notin Absorbed(p, s)
      BY <2>1, <2>2, <3>1, <3>3
    <3>4. QED
      BY <3>2, <3>3
  <2>5. n \in pending'
    BY <2>1
  <2>6. QED
    BY <2>2, <2>4, <2>5 DEF NothingLost
<1>2. CASE /\ log' = log /\ pending' \subseteq pending
           /\ pending \ pending' \subseteq applied /\ applied \subseteq applied'
  <2>1. Refs' = Refs
    BY <1>2 DEF Refs
  <2>2. ASSUME NEW r \in Refs
        PROVE  \E q \in pending' \cup applied' : q = r \/ (q > r /\ Covers(log[q], log[r]))
    BY <1>2 DEF NothingLost
  <2>3. QED
    BY <1>2, <2>1, <2>2 DEF NothingLost
<1>3. QED
  BY <1>1, <1>2, OtherSteps

LEMMA InductiveInit == OutboxInit => Inductive
<1> SUFFICES ASSUME OutboxInit PROVE Inductive
  OBVIOUS
<1>1. Refs = {}
  BY EmptySeq DEF OutboxInit, Refs
<1>2. QED
  BY <1>1, TypeInit
     DEF Inductive, OutboxInit, AckMeansApplied, OnePendingPerClass, NothingLost

\* What makes NothingLost and OnePendingPerClass inductive holds in every state of the outbox.
THEOREM InductiveHolds == OutboxSpec => []Inductive
<1>1. Inductive /\ [OutboxNext]_ovars => Inductive'
  BY TypeStep, AckStep, OnePendingStep, NothingLostStep DEF Inductive
<1>2. QED
  BY <1>1, InductiveInit, PTL DEF OutboxSpec

\* enqueue leaves one pending scalar entry per source and one status entry per
\* source and game, whatever threads flush in between.
THEOREM OneEntryPerClass == OutboxSpec => []OnePendingPerClass
<1>1. Inductive => OnePendingPerClass
  BY DEF Inductive
<1>2. QED
  BY <1>1, InductiveHolds, PTL

\* No key of an enqueued patch is lost between enqueue and the row.
THEOREM NoPatchLost == OutboxSpec => []NothingLost
<1>1. Inductive => NothingLost
  BY DEF Inductive
<1>2. QED
  BY <1>1, InductiveHolds, PTL
--------------------------------------------------------------------------------
\* While an entry is pending no later one of its class is created: enqueue would have
\* absorbed it.
NewestOfClass == \A r \in pending, q \in Refs : q > r => ~SameClass(log[q], log[r])

\* A newly created entry is of the class of its patch, and so is what the patch absorbs.
LEMMA ClassOfEntry ==
  ASSUME OutboxTypeOK, NEW p \in Patch, NEW s \in Source, NEW d
  PROVE  LET e == [kind |-> p.kind, vals |-> Merged(p, Absorbed(p, s)), source |-> s]
         IN  SameClass(d, e) <=>
               SameClass(d, [kind |-> p.kind, vals |-> p.vals, source |-> s])
<1>1. p.kind = "status" => Merged(p, Absorbed(p, s)) = p.vals
  BY MergedStatus
<1>2. QED
  BY <1>1 DEF SameClass, Keys

LEMMA NewestStep ==
  OutboxTypeOK /\ AckMeansApplied /\ NewestOfClass /\ [OutboxNext]_ovars => NewestOfClass'
<1> SUFFICES ASSUME OutboxTypeOK, AckMeansApplied, NewestOfClass, [OutboxNext]_ovars
             PROVE  NewestOfClass'
  OBVIOUS
<1>1. ASSUME NEW t \in Thread, NEW p \in Inputs, NEW s \in Source, Enqueue(t, p, s)
      PROVE  NewestOfClass'
  <2> DEFINE n == Len(log) + 1
             e == [kind |-> p.kind, vals |-> Merged(p, Absorbed(p, s)), source |-> s]
  <2>1. /\ pending' = (pending \ Absorbed(p, s)) \cup {n}
        /\ pending \subseteq Refs
        /\ p \in Patch
        /\ \A r \in Refs : r < n /\ r \in Nat
    BY <1>1, EnqueuePending
  <2>2. /\ Refs' = Refs \cup {n} /\ n \in Nat
        /\ \A r \in Refs : log'[r] = log[r]
        /\ log'[n] = e
    BY <1>1, EnqueueLog
  <2>3. ASSUME NEW r \in pending \ Absorbed(p, s)
        PROVE  ~SameClass(e, log[r])
    <3>1. ~SameClass(log[r], [kind |-> p.kind, vals |-> p.vals, source |-> s])
      BY DEF Absorbed
    <3>2. ~SameClass(log[r], e)
      BY <2>1, <3>1, ClassOfEntry
    <3>3. QED
      BY <3>2 DEF SameClass
  <2> HIDE DEF n, e
  <2>4. ASSUME NEW r \in pending', NEW q \in Refs', q > r
        PROVE  ~SameClass(log'[q], log'[r])
    <3>1. r \in pending \ Absorbed(p, s) /\ r \in Refs
      BY <2>1, <2>2, <2>4
    <3>2. CASE q = n
      BY <2>2, <2>3, <3>1, <3>2
    <3>3. CASE q # n
      BY <2>2, <2>4, <3>1, <3>3 DEF NewestOfClass
    <3>4. QED
      BY <3>2, <3>3
  <2>5. QED
    BY <2>4 DEF NewestOfClass, SameClass, Keys
<1>2. CASE log' = log /\ pending' \subseteq pending
  BY <1>2 DEF NewestOfClass, Refs
<1>3. QED
  BY <1>1, <1>2, OtherSteps

\* A key of the new entry that its patch does not write has the value of the one entry
\* that was absorbed; nothing of the class was enqueued since that entry.
LEMMA FreshestStep ==
  OutboxTypeOK /\ AckMeansApplied /\ NewestOfClass /\ PendingIsFreshest /\ [OutboxNext]_ovars
    => PendingIsFreshest'
<1> SUFFICES ASSUME OutboxTypeOK, AckMeansApplied, NewestOfClass, PendingIsFreshest,
                    [OutboxNext]_ovars
             PROVE  PendingIsFreshest'
  OBVIOUS
<1>1. ASSUME NEW t \in Thread, NEW p \in Inputs, NEW s \in Source, Enqueue(t, p, s)
      PROVE  PendingIsFreshest'
  <2> DEFINE n  == Len(log) + 1
             pe == [kind |-> p.kind, vals |-> p.vals, source |-> s]
             e  == [kind |-> p.kind, vals |-> Merged(p, Absorbed(p, s)), source |-> s]
  <2>1. /\ pending' = (pending \ Absorbed(p, s)) \cup {n}
        /\ pending \subseteq Refs
        /\ p \in Patch
        /\ \A r \in Refs : r < n /\ r \in Nat
    BY <1>1, EnqueuePending
  <2>2. /\ Refs' = Refs \cup {n} /\ Len(log) \in Nat
        /\ \A r \in Refs : log'[r] = log[r]
        /\ log'[n] = e
        /\ \A r \in Refs : asked'[r] = asked[r]
        /\ asked'[n] = p
    BY <1>1, EnqueueLog
  <2>3. ASSUME NEW r \in pending \ Absorbed(p, s), NEW k \in Key,
               log'[r].kind # "other", k \in Keys(log'[r])
        PROVE  \E q \in 1..r :
                 /\ SameClass(log'[q], log'[r])
                 /\ k \in Keys(asked'[q])
                 /\ log'[r].vals[k] = asked'[q].vals[k]
                 /\ \A m \in (q + 1)..r : SameClass(log'[m], log'[r]) => k \notin Keys(asked'[m])
    <3>1. r \in Refs /\ 1..r \subseteq Refs
      BY <2>1, <2>2 DEF Refs
    <3>2. PICK q \in 1..r :
            /\ SameClass(log[q], log[r])
            /\ k \in Keys(asked[q])
            /\ log[r].vals[k] = asked[q].vals[k]
            /\ \A m \in (q + 1)..r : SameClass(log[m], log[r]) => k \notin Keys(asked[m])
      BY <2>2, <2>3, <3>1 DEF PendingIsFreshest
    <3>3. \A m \in (q + 1)..r : m \in 1..r
      BY <2>1, <3>1
    <3>4. QED
      BY <2>2, <3>1, <3>2, <3>3
  <2>4. ASSUME NEW k \in Key, e.kind # "other", k \in Keys(e)
        PROVE  \E q \in 1..n :
                 /\ SameClass(log'[q], e)
                 /\ k \in Keys(asked'[q])
                 /\ e.vals[k] = asked'[q].vals[k]
                 /\ \A m \in (q + 1)..n : SameClass(log'[m], e) => k \notin Keys(asked'[m])
    <3>1. CASE k \in Keys(p)
      <4>1. e.vals[k] = p.vals[k]
        BY <3>1 DEF Merged
      <4>2. SameClass(e, e)
        BY <2>4 DEF SameClass
      <4>3. n \in 1..n /\ (n + 1)..n = {}
        BY <2>2
      <4>4. QED
        BY <2>2, <3>1, <4>1, <4>2, <4>3
    <3>2. CASE k \notin Keys(p)
      <4> DEFINE having == {r \in Absorbed(p, s) : k \in Keys(log[r])}
                 c == CHOOSE r \in having : \A q \in having : r <= q
      <4>1. having # {}
        BY <2>4, <3>2 DEF Merged, Keys
      <4>2. e.vals[k] = log[c].vals[k]
        BY <3>2, <4>1 DEF Merged
      <4>3. having \subseteq Nat
        BY <2>1 DEF Absorbed
      <4>4. c \in having
        BY <4>1, <4>3, OldestExists
      <4> HIDE DEF c
      <4>5. c \in pending /\ c \in Refs /\ SameClass(log[c], pe) /\ k \in Keys(log[c])
        BY <2>1, <4>4 DEF Absorbed
      <4>6. p.kind = "scalar"
        BY <2>1, <3>2, <4>5 DEF SameClass, Patch, Kind, Keys
      <4>7. PICK q \in 1..c :
              /\ SameClass(log[q], log[c])
              /\ k \in Keys(asked[q])
              /\ log[c].vals[k] = asked[q].vals[k]
              /\ \A m \in (q + 1)..c : SameClass(log[m], log[c]) => k \notin Keys(asked[m])
        BY <4>5 DEF PendingIsFreshest, SameClass
      <4>8. c \in 1..Len(log) /\ q \in 1..Len(log) /\ q \in 1..n
        BY <2>1, <2>2, <4>5 DEF Refs
      <4>9. SameClass(log'[q], e)
        BY <2>2, <4>5, <4>6, <4>7, <4>8 DEF SameClass, Refs
      <4>10. ASSUME NEW m \in (q + 1)..n, SameClass(log'[m], e)
             PROVE  k \notin Keys(asked'[m])
        <5>1. CASE m = n
          BY <2>2, <3>2, <5>1
        <5>2. CASE m # n
          <6>1. m \in Refs /\ m \in Nat /\ c \in Nat
            BY <2>2, <4>8, <5>2 DEF Refs
          <6>2. SameClass(log[m], log[c])
            BY <2>2, <4>5, <4>6, <4>10, <6>1 DEF SameClass
          <6>3. m <= c
            BY <4>5, <6>1, <6>2 DEF NewestOfClass
          <6>4. m \in (q + 1)..c
            BY <4>8, <6>1, <6>3
          <6>5. QED
            BY <2>2, <4>7, <6>1, <6>2, <6>4
        <5>3. QED
          BY <5>1, <5>2
      <4>11. k \in Keys(asked'[q]) /\ e.vals[k] = asked'[q].vals[k]
        BY <2>2, <4>2, <4>7, <4>8 DEF Refs
      <4>12. QED
        BY <4>8, <4>9, <4>10, <4>11
    <3>3. QED
      BY <3>1, <3>2
  <2> HIDE DEF n, e
  <2>5. ASSUME NEW r \in pending', NEW k \in Key, log'[r].kind # "other", k \in Keys(log'[r])
        PROVE  \E q \in 1..r :
                 /\ SameClass(log'[q], log'[r])
                 /\ k \in Keys(asked'[q])
                 /\ log'[r].vals[k] = asked'[q].vals[k]
                 /\ \A m \in (q + 1)..r : SameClass(log'[m], log'[r]) => k \notin Keys(asked'[m])
    <3>1. CASE r = n
      BY <2>2, <2>4, <2>5, <3>1
    <3>2. CASE r # n
      BY <2>1, <2>3, <2>5, <3>2
    <3>3. QED
      BY <3>1, <3>2
  <2>6. QED
    BY <2>5 DEF PendingIsFreshest, SameClass, Keys
<1>2. CASE log' = log /\ asked' = asked /\ pending' \subseteq pending
  BY <1>2 DEF PendingIsFreshest
<1>3. QED
  BY <1>1, <1>2, OtherSteps

\* A pending coalesced entry carries the newest values, whatever the number of merges,
\* retries, errors and threads.
THEOREM NewestValuesPending == OutboxSpec => []PendingIsFreshest
<1> DEFINE Fresh == NewestOfClass /\ PendingIsFreshest
<1>1. OutboxInit => Fresh
  BY DEF OutboxInit, NewestOfClass, PendingIsFreshest
<1>2. Inductive => OutboxTypeOK /\ AckMeansApplied
  BY DEF Inductive
<1>3. OutboxTypeOK /\ AckMeansApplied /\ Fresh /\ [OutboxNext]_ovars => Fresh'
  BY NewestStep, FreshestStep
<1>4. QED
  BY <1>1, <1>2, <1>3, InductiveHolds, PTL DEF OutboxSpec
--------------------------------------------------------------------------------
\* enqueue accepts a patch in the sense of PatchDelivery.
LEMMA EnqueueAccepts ==
  ASSUME OutboxTypeOK, NEW t \in Thread, NEW p \in Inputs, NEW s \in Source,
         Enqueue(t, p, s)
  PROVE  Delivery!Accept
<1> DEFINE n == Len(log) + 1
           e == [kind |-> p.kind, vals |-> Merged(p, Absorbed(p, s)), source |-> s]
<1>1. /\ pending' = (pending \ Absorbed(p, s)) \cup {n}
      /\ pending \subseteq Refs
      /\ applied' = applied
      /\ p \in Patch
      /\ \A r \in Refs : r < n /\ r \in Nat
  BY EnqueuePending
<1>2. /\ log' \in Seq(Entry)
      /\ Len(log') = n
      /\ n \in 1..Len(log')
      /\ log'[n] = e
  BY EnqueueLog
<1>3. log' = Append(log, e)
  BY DEF Enqueue
<1>4. e \in Entry
  BY <1>2, ElementOfSeq
<1>5. \A q \in Absorbed(p, s) : Covers(e, log[q])
  BY <1>1, MergedCovers
<1>6. Delivery!Entry = Entry /\ \A a, b : Delivery!Covers(a, b) = Covers(a, b)
  BY DEF Delivery!Entry, Delivery!Kind, Entry, Kind,
         Delivery!Covers, Delivery!Keys, Covers, Keys
<1> HIDE DEF e, n
<1>7. \A q \in pending \ pending' : Covers(log'[n], log[q])
  BY <1>1, <1>2, <1>5
<1>8. QED
  BY <1>1, <1>2, <1>3, <1>4, <1>6, <1>7 DEF Delivery!Accept, n

\* Every step is one of PatchDelivery, or leaves its variables alone.
LEMMA DeliveryStep ==
  OutboxTypeOK /\ AckMeansApplied /\ [OutboxNext]_ovars => [Delivery!Next]_(Delivery!vars)
<1> SUFFICES ASSUME OutboxTypeOK, AckMeansApplied, [OutboxNext]_ovars
             PROVE  Delivery!Next \/ UNCHANGED <<log, pending, applied>>
  BY DEF Delivery!vars
<1> USE DEF shared, threads, outside
<1>1. ASSUME NEW t \in Thread, NEW p \in Inputs, NEW s \in Source, Enqueue(t, p, s)
      PROVE  Delivery!Next
  BY <1>1, EnqueueAccepts DEF Delivery!Next
<1>2. ASSUME NEW t \in Thread, Step(t)
      PROVE  UNCHANGED <<log, pending, applied>>
  BY <1>2 DEF Step, FlushBegin, Visit, Send, Mark, PutOff
<1>3. ASSUME NEW r \in Refs, OnAck(r)
      PROVE  Delivery!Next \/ UNCHANGED <<log, pending, applied>>
  <2>1. /\ r \in applied /\ log' = log /\ applied' = applied
        /\ pending' = pending \ {r}
    BY <1>3 DEF OnAck, AckMeansApplied
  <2>2. CASE r \in pending
    BY <2>1, <2>2 DEF Delivery!Next, Delivery!Settle, Refs
  <2>3. CASE r \notin pending
    BY <2>1, <2>3
  <2>4. QED
    BY <2>2, <2>3
<1>4. ASSUME NEW r \in Refs, Expire(r) \/ OnError(r)
      PROVE  UNCHANGED <<log, pending, applied>>
  BY <1>4 DEF Expire, OnError
<1>5. ASSUME Connect \/ Disconnect
      PROVE  UNCHANGED <<log, pending, applied>>
  BY <1>5 DEF Connect, Disconnect
<1>6. ASSUME NEW ok \in BOOLEAN, NEW reply \in BOOLEAN, BridgeTakes(ok, reply)
      PROVE  Delivery!Next \/ UNCHANGED <<log, pending, applied>>
  <2>1. Head(wire) \in Refs
    BY <1>6, HeadTailProperties DEF BridgeTakes, OutboxTypeOK
  <2>2. CASE ok
    <3>1. Delivery!Receive(Head(wire))
      BY <1>6, <2>2 DEF BridgeTakes, Delivery!Receive
    <3>2. QED
      BY <2>1, <3>1 DEF Delivery!Next, Refs
  <2>3. CASE ~ok
    BY <1>6, <2>3 DEF BridgeTakes
  <2>4. QED
    BY <2>2, <2>3
<1>7. CASE UNCHANGED ovars
  BY <1>7 DEF ovars
<1>8. QED
  BY <1>1, <1>2, <1>3, <1>4, <1>5, <1>6, <1>7 DEF OutboxNext

\* The outbox implements PatchDelivery: what is pending is owed, and a patch is
\* settled only when the row has it.
THEOREM ImplementsDelivery == OutboxSpec => DeliverySpec
<1>1. OutboxInit => Delivery!Init
  BY DEF OutboxInit, Delivery!Init
<1>2. Inductive => OutboxTypeOK /\ AckMeansApplied
  BY DEF Inductive
<1>3. QED
  BY <1>1, <1>2, DeliveryStep, InductiveHolds, PTL
     DEF OutboxSpec, DeliverySpec, Delivery!Spec
================================================================================
