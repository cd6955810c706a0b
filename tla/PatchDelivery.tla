----------------------------- MODULE PatchDelivery -----------------------------
(***************************************************************************)
(* What the rest of the runtime relies on when it publishes a patch of the *)
(* device row: every patch it hands over is owed to the cloud row until    *)
(* it has been applied there, or until a newer patch that writes at least  *)
(* the same keys has taken its place.  Applying a patch more than once is  *)
(* allowed, forgetting one is not.                                         *)
(***************************************************************************)
EXTENDS Patches

VARIABLES
  log,   \* every patch accepted so far; a patch is named by its position
  owed,  \* the accepted patches still to be delivered
  got    \* the patches the row has received

vars == <<log, owed, got>>

Init == log = <<>> /\ owed = {} /\ got = {}

\* A patch is accepted, whatever it is; it may take the place of owed patches
\* that it covers.
Accept ==
  LET r == Len(log) + 1
      e == log'[r]
  IN  /\ Len(log') = r
      /\ e \in Entry
      /\ log' = Append(log, e)
      /\ r \in owed'
      /\ owed' \subseteq owed \cup {r}
      /\ \A q \in owed \ owed' : Covers(e, log[q])
      /\ UNCHANGED got

\* The row receives a patch, perhaps not for the first time, perhaps one that
\* is no longer owed.
Receive(r) ==
  /\ got' = got \cup {r}
  /\ UNCHANGED <<log, owed>>

\* A received patch is no longer owed.
Settle(r) ==
  /\ r \in owed \cap got
  /\ owed' = owed \ {r}
  /\ UNCHANGED <<log, got>>

Next ==
  \/ Accept
  \/ \E r \in 1..Len(log) : Receive(r) \/ Settle(r)

Spec == Init /\ [][Next]_vars
================================================================================
