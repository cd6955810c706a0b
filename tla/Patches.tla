------------------------------- MODULE Patches --------------------------------
(***************************************************************************)
(* The patches the runtime publishes to the device row.  What a patch      *)
(* writes is a value per key; three kinds matter to the outbox: patches of *)
(* scalar columns only, patches of one game's status, and all others.      *)
(***************************************************************************)
EXTENDS Naturals, Sequences

CONSTANTS
  Key,     \* the columns of the row, and the games whose status it carries
  Value,   \* the values a patch writes
  Source,  \* who published a patch
  Absent   \* stands for a key a patch does not write

ASSUME AbsentAssumption == Absent \notin Value

Kind  == {"scalar", "status", "other"}
Patch == [kind : Kind, vals : [Key -> Value \cup {Absent}]]
Entry == [kind : Kind, vals : [Key -> Value \cup {Absent}], source : Source]

Keys(p) == {k \in Key : p.vals[k] # Absent}

\* A newer entry may stand for an older one: the two are of one coalescible
\* kind and source, and the newer one writes every key of the older one.
Covers(new, old) ==
  /\ new.kind = old.kind
  /\ new.kind # "other"
  /\ new.source = old.source
  /\ Keys(old) \subseteq Keys(new)

\* Two entries of one class are coalesced while both are pending.
SameClass(d, e) ==
  /\ d.kind = e.kind
  /\ d.kind # "other"
  /\ d.source = e.source
  /\ d.kind = "status" => Keys(d) = Keys(e)
================================================================================
