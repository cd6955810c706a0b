------------------------------- MODULE MC_Outbox -------------------------------
(* Small instance of Outbox: volume and brightness columns, one game.        *)
EXTENDS Outbox

CONSTANTS bg, pub, vol, bri, game, v1, v2, src

MCKey == {vol, bri, game}
NoVals == [k \in MCKey |-> Absent]
Scalar(k, v) == [kind |-> "scalar", vals |-> [NoVals EXCEPT ![k] = v]]
Status(v) == [kind |-> "status", vals |-> [NoVals EXCEPT ![game] = v]]
Whole(v) == [kind |-> "other", vals |-> [NoVals EXCEPT ![game] = v, ![vol] = v]]

\* Two patches that share a column.
SafetyInputs ==
  {Scalar(vol, v1),
   [kind |-> "scalar", vals |-> [NoVals EXCEPT ![vol] = v2, ![bri] = v1]]}

\* A game's status, and a list of several keys that is never coalesced.
LiveInputs == {Status(v1), Whole(v2)}

\* A game's install: "downloading" (v1), then "ready" (v2).
StatusInputs == {Status(v1), Status(v2)}
================================================================================
